---- MODULE Spec2Model ----
(***************************************************************************)
(* Server side of the tunl.cc reverse tunnel: the control sessions         *)
(* (src/server/websocket.ts), the tunnel registry and pending request     *)
(* table (src/server/tunnel-manager.ts and its Redis variant) and the     *)
(* edge dispatcher (src/server/http.ts).  One action per handler or per   *)
(* continuation between two awaits of the single-threaded event loop.     *)
(***************************************************************************)
EXTENDS Integers, Sequences, FiniteSets, TLC

\* ---------------------------------------------------------------- bounds
NumChans == 2
NumRegs == 2
NumReqs == 1
TickMs == 30000
UserLimit == 1
RateTickMs == 500
BurstSize == 20
MaxStarted == 6
MaxLabel == 3
MaxBody == 4
MaxHost == 5
BeatMs == 10000
MaxSincePong == 150000

Chans == 1..NumChans
Regs == 1..NumRegs
Reqs == 1..NumReqs

\* ------------------------------------------------------ program constants
DEFAULT_TIMEOUT == 30000
REGISTRATION_TIMEOUT == 10000
MAX_MESSAGE_SIZE == 1048576
RATE_LIMIT == 100
RATE_WINDOW == 1000
initialDelay == 1000
maxDelay == 60000
factorNum == 3
factorDen == 2
maxReconnectAttempts == 5
FATAL_EXIT_DELAY == 100
HEARTBEAT_INTERVAL == 30000
PONG_TIMEOUT == 90000
\* reconnectDelay is kept in units of 1/DelayScale ms, which is exact for as
\* many multiplications by factor as the attempt limit allows
DelayScale == 2 ^ maxReconnectAttempts
POLICY_VIOLATION == 1008
MESSAGE_TOO_BIG == 1009
RESPONSE_CAP == 104857600

NoChan == 0
NoSub == << >>
NoKey == ""
NoUser == ""

Min(a, b) == IF a < b THEN a ELSE b

\* ------------------------------------------------------ subdomain policy
LowerChars == <<"a","b","c","d","e","f","g","h","i","j","k","l","m",
                "n","o","p","q","r","s","t","u","v","w","x","y","z">>
UpperChars == <<"A","B","C","D","E","F","G","H","I","J","K","L","M",
                "N","O","P","Q","R","S","T","U","V","W","X","Y","Z">>
DigitChars == {"0","1","2","3","4","5","6","7","8","9"}

IsLower(ch) == \E i \in 1..26 : LowerChars[i] = ch
IsUpper(ch) == \E i \in 1..26 : UpperChars[i] = ch

toLowerCase(s) ==
  [i \in 1..Len(s) |->
     IF IsUpper(s[i])
       THEN LowerChars[CHOOSE k \in 1..26 : UpperChars[k] = s[i]]
       ELSE s[i]]

\* [a-z0-9] under the /i flag
IsAlnum(ch) == IsLower(ch) \/ IsUpper(ch) \/ ch \in DigitChars

\* /^[a-z0-9]([a-z0-9-]*[a-z0-9])?$/i
MatchesFormat(s) ==
  /\ Len(s) >= 1
  /\ IsAlnum(s[1])
  /\ \/ Len(s) = 1
     \/ /\ IsAlnum(s[Len(s)])
        /\ \A i \in 2..(Len(s) - 1) : IsAlnum(s[i]) \/ s[i] = "-"

RESERVED_SUBDOMAINS ==
  { <<"w","w","w">>, <<"a","p","i">>, <<"a","d","m","i","n">>,
    <<"d","a","s","h","b","o","a","r","d">>, <<"a","p","p">>,
    <<"m","a","i","l">>, <<"f","t","p">>,
    <<"l","o","c","a","l","h","o","s","t">>,
    <<"w","e","b","m","a","i","l">>, <<"s","m","t","p">>,
    <<"p","o","p">>, <<"n","s">>, <<"d","n","s">>,
    <<"s","u","p","p","o","r","t">>, <<"h","e","l","p">>,
    <<"s","e","c","u","r","e">>, <<"s","s","l">>, <<"v","p","n">> }

PROFANITY_LIST == { }

\* does sequence w occur in s as a contiguous substring
Includes(s, w) ==
  \E i \in 1..(Len(s) + 1) :
     /\ i + Len(w) - 1 <= Len(s)
     /\ \A j \in 1..Len(w) : s[i + j - 1] = w[j]

\* isValidSubdomain with the reserved check on the label as given
isValidSubdomainCaseSensitive(s) ==
  IF Len(s) < 3 \/ Len(s) > 63 THEN FALSE
  ELSE IF ~MatchesFormat(s) THEN FALSE
  ELSE IF s \in RESERVED_SUBDOMAINS THEN FALSE
  ELSE IF \E w \in PROFANITY_LIST : Includes(toLowerCase(s), w) THEN FALSE
  ELSE TRUE

isValidSubdomain(s) ==
  IF Len(s) < 3 \/ Len(s) > 63 THEN FALSE
  ELSE IF ~MatchesFormat(s) THEN FALSE
  ELSE IF toLowerCase(s) \in RESERVED_SUBDOMAINS THEN FALSE
  ELSE IF \E w \in PROFANITY_LIST : Includes(toLowerCase(s), w) THEN FALSE
  ELSE TRUE

\* labels a client may put in Register.subdomain
SubDev == <<"d","e","v">>
SubShort == <<"a","b">>
SubReserved == <<"W","W","W">>
\* values crypto.randomBytes(4).toString('hex') can return
SubGenerated == <<"c","0","f","f","e","e","1","2">>
SubGenerated2 == <<"0","0","b","a","d","d","0","5">>

RequestedSubs == {SubDev, SubShort, SubReserved, NoSub}

\* generateSubdomain(): the values one call may return
generateSubdomain == {SubGenerated, SubGenerated2}

\* the labels that can ever be keys of the registry in this model
Subdomains == {s \in (RequestedSubs \ {NoSub}) \cup generateSubdomain :
                 isValidSubdomain(s)}

\* ------------------------------------------------------------ users table
ApiKeys == {NoKey, "k1", "bad"}

\* db('users').where({api_key, is_active: true}).first()
UserByKey(key) == IF key = "k1" THEN "u1" ELSE NoUser
TunnelLimitOf(u) == UserLimit

\* ------------------------------------------------------------------ state
VARIABLES
  backend,        \* "sql" (tunnel-manager.ts) or "redis" (its key-value variant)
  wsThrows,       \* whether ws.send on a socket that is not OPEN throws
  ses,            \* per control connection: the closure state of the handler
  reg,            \* the calls of handleRegister / TunnelManager.register
  overlap,        \* pairs of register calls whose executions overlapped
  unreg,          \* per connection: the call of unregister made on close
  activeTunnels,  \* TunnelManager.activeTunnels : subdomain -> ws
  store,          \* tunnels table / tunnel:<sub> keys
  userSet,        \* redis set user:u1:tunnels
  rq,             \* per public request: forwardRequest's closure + responder
  pending,        \* TunnelManager.pendingRequests (its key set)
  call,           \* the last direct call of a function and its result
  released,       \* subdomains for which a call of unregister has completed
  again,          \* register calls made for a released, free subdomain
  rl,             \* one connection's message rate limiter and what it let through
  cl              \* the tunnel client (TunnelClient of the cli)

vars == <<backend, wsThrows, ses, reg, overlap, unreg, activeTunnels, store,
          userSet, rq, pending, call, released, again, rl, cl>>

NewSession ==
  [st |-> "none", sub |-> NoSub, timer |-> FALSE, age |-> 0, seen |-> FALSE, arrived |-> FALSE,
   code |-> 0, killed |-> FALSE, regd |-> {}, errs |-> 0, failed |-> FALSE,
   ignored |-> FALSE, droppedOther |-> FALSE,
   isAlive |-> TRUE, pinged |-> FALSE, quiet |-> 0, late |-> FALSE, hb |-> FALSE]

\* after the close handler has run nothing reads the closure again
ClosedSession == [NewSession EXCEPT !.st = "closed"]

FreeReg ==
  [pc |-> "free", ch |-> NoChan, sub |-> NoSub, key |-> NoKey, res |-> "", threw |-> ""]

\* a call that has returned: only its subdomain, its result and what its
\* catch block caught ("store": the store was unreachable, "unique": the
\* insert was rejected) are kept
Returned(sub, res, threw) ==
  [FreeReg EXCEPT !.pc = "done", !.sub = sub, !.res = res, !.threw = threw]

NewRequest ==
  [st |-> "idle", ws |-> NoChan, timer |-> FALSE, elapsed |-> 0,
   wire |-> FALSE, writes |-> << >>, by |-> NoChan,
   sub |-> NoSub, incr |-> "", flushed |-> FALSE, cut |-> FALSE]

NoRow == [st |-> "absent", user |-> NoUser]

NoUnreg == [pc |-> "idle", sub |-> NoSub]

NoCall == [op |-> "", id |-> 0, ret |-> ""]

\* messageCount and the phase of messageRateLimitWindow of one connection;
\* recent holds <<age, n>>: n messages were processed age ms ago
NewLimiter ==
  [st |-> "open", messageCount |-> 0, phase |-> 0, recent |-> { }, code |-> 0,
   reason |-> ""]

\* the fields of TunnelClient after its constructor, the state of its
\* socket and promise, and what has happened since the last Registered
NoClose == [code |-> 0, reason |-> ""]

NewClient ==
  [phase |-> "new", viaReconnect |-> FALSE, isConnected |-> FALSE,
   isReconnecting |-> FALSE, reconnectAttempts |-> 0,
   reconnectDelay |-> initialDelay * DelayScale,
   hasFatalError |-> FALSE, shouldReconnect |-> TRUE,
   closeEv |-> NoClose, rejected |-> FALSE, exitTimer |-> FALSE,
   exitCode |-> -1, exitBy |-> "",
   lastErr |-> "", closedBy |-> NoClose, owed |-> FALSE,
   delays |-> << >>, started |-> 0, ended |-> 0,
   timers |-> 0, socks |-> 0, failedAt |-> -1,
   subdomain |-> NoSub, publicUrl |-> NoSub,
   handling |-> FALSE, arrivedOn |-> NoChan, sentOn |-> NoChan,
   hbOn |-> FALSE, sincePong |-> 0, sinceBeat |-> 0, pinged |-> FALSE,
   hbKilled |-> FALSE]

Init ==
  /\ backend \in {"sql", "redis"}
  /\ wsThrows \in BOOLEAN
  /\ ses = [c \in Chans |-> NewSession]
  /\ reg = [p \in Regs |-> FreeReg]
  /\ overlap = {}
  /\ unreg = [c \in Chans |-> NoUnreg]
  /\ activeTunnels = [s \in Subdomains |-> NoChan]
  /\ store = [s \in Subdomains |-> NoRow]
  /\ userSet = {}
  /\ rq = [r \in Reqs |-> NewRequest]
  /\ pending = {}
  /\ call = NoCall
  /\ released = {}
  /\ again = {}
  /\ rl = NewLimiter
  /\ cl = NewClient

\* ------------------------------------------------------------- ws socket
IsOpen(c) == ses[c].st = "open"
Receiving(c) == ses[c].st \in {"open", "closing"}

\* ws.close(code): starts the closing handshake of an OPEN socket
WsClose(s, code) ==
  IF s.st = "open" THEN [s EXCEPT !.st = "closing", !.code = code] ELSE s

\* ws.terminate(): destroys the socket; the close event follows
WsTerminate(s) ==
  IF s.st \in {"open", "closing"} THEN [s EXCEPT !.st = "terminated"] ELSE s

\* wss.on('connection'): a control connection is accepted
Connect(c) ==
  /\ ses[c].st = "none"
  /\ \A d \in Chans : d < c => ses[d].st # "none"
  /\ ses' = [ses EXCEPT ![c] = [NewSession EXCEPT !.st = "open", !.timer = TRUE]]
  /\ UNCHANGED <<cl, rl, released, again, call, backend, wsThrows, reg, overlap, unreg, activeTunnels, store,
                 userSet, rq, pending>>

\* connectionTimeout fires: no Register was processed in time
RegTimerFire(c) ==
  /\ ses[c].timer
  /\ ses[c].age >= REGISTRATION_TIMEOUT
  /\ ses' = [ses EXCEPT ![c] =
               [WsTerminate(ses[c]) EXCEPT !.timer = FALSE, !.age = 0,
                                           !.killed = TRUE]]
  /\ UNCHANGED <<cl, rl, released, again, call, backend, wsThrows, reg, overlap, unreg, activeTunnels, store,
                 userSet, rq, pending>>

\* sizes of incoming frames: one within the limit, one beyond it
MessageSizes == {64, MAX_MESSAGE_SIZE + 1}

\* what the sender put in the type field of a frame
MessageTypes == {"register", "response"}

\* text that JSON.parse rejects, and types the switch has no case for
NotJson == "<not json>"
OtherTypes == {NotJson, "request", "bogus"}

\* ws.on('message'), size limit: the frame is dropped unparsed, whatever its
\* type, and the channel closed 1009
MsgTooLarge(c, len, type) ==
  /\ Receiving(c)
  /\ len > MAX_MESSAGE_SIZE
  /\ ses[c].st = "open"
  /\ ses' = [ses EXCEPT ![c] =
               WsClose([ses[c] EXCEPT !.arrived = @ \/ type = "register",
                                      !.droppedOther = @ \/ type \in OtherTypes],
                       MESSAGE_TOO_BIG)]
  /\ UNCHANGED <<cl, rl, released, again, call, backend, wsThrows, reg, overlap, unreg, activeTunnels, store,
                 userSet, rq, pending>>

\* the default branch and the catch, closing the channel as well
LogAndClose(s) == WsClose([s EXCEPT !.ignored = ~@], POLICY_VIOLATION)

\* the default branch of the switch and the catch around it: a log line;
\* ignored is the parity of the messages that ended there
LogAndIgnore(s) == [s EXCEPT !.ignored = ~@]

\* ws.on('message') for a frame within the size limit that is not valid JSON
\* or whose type has no case
OnOther(c, len, type) ==
  /\ Receiving(c)
  /\ len <= MAX_MESSAGE_SIZE
  /\ type \in OtherTypes
  /\ ses' = [ses EXCEPT ![c] = LogAndIgnore(ses[c])]
  /\ UNCHANGED <<cl, rl, released, again, call, backend, wsThrows, reg, overlap, unreg, activeTunnels, store,
                 userSet, rq, pending>>

\* ------------------------------------------------------------ heartbeat
\* a pong handler that leaves isAlive alone
PongIgnored(s) == [s EXCEPT !.pinged = FALSE, !.quiet = 0]

\* ws.on('pong'): isAlive = true
OnPong(s) == [s EXCEPT !.isAlive = TRUE, !.pinged = FALSE, !.quiet = 0]

\* the peer answers the outstanding ping
Pong(c) ==
  /\ Receiving(c)
  /\ ses[c].pinged
  /\ ses' = [ses EXCEPT ![c] = OnPong(ses[c])]
  /\ UNCHANGED <<cl, rl, released, again, call, backend, wsThrows, reg, overlap, unreg, activeTunnels, store,
                 userSet, rq, pending>>

\* ws.on('ping'): the peer's own ping also sets isAlive; the server's ping
\* stays unanswered
PeerPing(c) ==
  /\ Receiving(c)
  /\ ses' = [ses EXCEPT ![c] = [@ EXCEPT !.isAlive = TRUE, !.quiet = 0]]
  /\ UNCHANGED <<cl, rl, released, again, call, backend, wsThrows, reg, overlap, unreg, activeTunnels, store,
                 userSet, rq, pending>>

\* one run of heartbeatInterval over wss.clients. quiet counts the runs since
\* the peer last sent a pong or a ping, late records a ping that was still
\* unanswered at the next run, hb that the ticker terminated the socket
HeartbeatTick ==
  /\ \E c \in Chans : IsOpen(c)
  /\ ses' = [c \in Chans |->
               IF ~IsOpen(c) THEN ses[c]
               ELSE IF ~ses[c].isAlive
                 THEN [WsTerminate(ses[c]) EXCEPT !.hb = TRUE, !.quiet = @ + 1,
                                                  !.late = @ \/ ses[c].pinged]
               ELSE [ses[c] EXCEPT !.isAlive = FALSE, !.pinged = TRUE,
                                   !.quiet = @ + 1,
                                   !.late = @ \/ ses[c].pinged]]
  /\ UNCHANGED <<cl, rl, released, again, call, backend, wsThrows, reg, overlap, unreg, activeTunnels, store,
                 userSet, rq, pending>>

\* ------------------------------------------------------- handleRegister
InFlight(p) == reg[p].pc \notin {"free", "done"}

\* the failure branch without its ws.close
SendErrorWithoutClose(s) ==
  IF s.st = "open" THEN [s EXCEPT !.errs = s.errs + 1, !.failed = TRUE]
  ELSE IF s.st = "closed" THEN s
  ELSE [s EXCEPT !.failed = TRUE]

\* failure branch of handleRegister: ws.send(Error); ws.close(1008, error).
\* On a socket that is not OPEN the send is dropped or throws, and close
\* does nothing.
SendErrorAndClose(s) ==
  IF s.st = "open"
    THEN WsClose([s EXCEPT !.errs = s.errs + 1, !.failed = TRUE], POLICY_VIOLATION)
  ELSE IF s.st = "closed" THEN s
  ELSE [s EXCEPT !.failed = TRUE]

\* success branch of handleRegister: ws.send(Registered); setSubdomain(sub)
SendRegistered(s, sub) ==
  IF s.st = "open" THEN [s EXCEPT !.regd = s.regd \cup {sub}, !.sub = sub]
  ELSE IF wsThrows \/ s.st = "closed" THEN s
  ELSE [s EXCEPT !.sub = sub]

\* register() returned {success: false, error}: handleRegister's failure branch
RegisterFails(p, err, threw) ==
  /\ reg' = [reg EXCEPT ![p] = Returned(reg[p].sub, err, threw)]
  /\ ses' = [ses EXCEPT ![reg[p].ch] = SendErrorAndClose(ses[reg[p].ch])]

\* the handler without its clearTimeout(connectionTimeout)
KeepRegTimer(s) == [s EXCEPT !.seen = TRUE]

\* clearTimeout(connectionTimeout) once a message reached the switch
ClearRegTimer(s) == [s EXCEPT !.timer = FALSE, !.age = 0, !.seen = TRUE]

\* unregister(s) has completed and nothing holds or is taking s
Released(s) ==
  /\ s \in released
  /\ activeTunnels[s] = NoChan
  /\ \A q \in Regs : InFlight(q) => reg[q].sub # s
  /\ \A c \in Chans : unreg[c].pc \in {"update", "delete"} => unreg[c].sub # s

\* case MESSAGE_TYPES.REGISTER of the message handler, up to the first await
\* of TunnelManager.register
OnRegister(c, len, msgSub, key) ==
  /\ Receiving(c)
  /\ len <= MAX_MESSAGE_SIZE
  /\ \E p \in Regs, gen \in generateSubdomain :
       /\ reg[p].pc = "free"
       /\ \A q \in Regs : q < p => reg[q].pc # "free"
       /\ LET sub == IF msgSub = NoSub THEN gen ELSE msgSub
              r   == [FreeReg EXCEPT !.ch = c, !.sub = sub, !.key = key]
              s1  == [ClearRegTimer(ses[c]) EXCEPT !.arrived = TRUE]
          IN IF ~isValidSubdomain(sub)
               THEN /\ reg' = [reg EXCEPT ![p] = Returned(NoSub, "Invalid subdomain", "")]
                    /\ ses' = [ses EXCEPT ![c] = SendErrorAndClose(s1)]
                    /\ UNCHANGED <<overlap, again>>
             ELSE IF activeTunnels[sub] # NoChan
               THEN /\ reg' = [reg EXCEPT ![p] = Returned(sub, "Subdomain already taken", "")]
                    /\ ses' = [ses EXCEPT ![c] = SendErrorAndClose(s1)]
                    /\ UNCHANGED <<overlap, again>>
             ELSE /\ reg' = [reg EXCEPT ![p] = [r EXCEPT !.pc = "lookup"]]
                  /\ ses' = [ses EXCEPT ![c] = s1]
                  /\ overlap' = overlap \cup {{p, q} : q \in {x \in Regs : InFlight(x)}}
                  /\ again' = IF Released(sub) THEN again \cup {p} ELSE again
  /\ UNCHANGED <<cl, rl, released, call, backend, wsThrows, unreg, activeTunnels, store, userSet, rq, pending>>

\* ------------------------------------------------ TunnelManager.register
\* is there a live tunnel record for the subdomain in the store
ExistingTunnel(s) == store[s].st = "active"

\* the user's live tunnel count as the backend reports it
ActiveTunnelCount(u) ==
  IF backend = "sql"
    THEN Cardinality({s \in Subdomains : store[s].st = "active" /\ store[s].user = u})
    ELSE Cardinality(userSet)

\* first await: the lookup of an existing tunnel returns (or rejects)
RegLookup(p, ok) ==
  /\ reg[p].pc = "lookup"
  /\ IF ~ok THEN RegisterFails(p, "Registration failed", "store")
     ELSE IF ExistingTunnel(reg[p].sub) THEN RegisterFails(p, "Subdomain already taken", "")
     ELSE /\ reg' = [reg EXCEPT ![p].pc = IF reg[p].key # NoKey THEN "user" ELSE "insert"]
          /\ UNCHANGED ses
  /\ UNCHANGED <<cl, rl, released, again, call, backend, wsThrows, overlap, unreg, activeTunnels, store, userSet,
                 rq, pending>>

\* second await: the users lookup by api key
RegUser(p, ok) ==
  /\ reg[p].pc = "user"
  /\ IF ~ok THEN RegisterFails(p, "Registration failed", "store")
     ELSE IF UserByKey(reg[p].key) = NoUser THEN RegisterFails(p, "Invalid API key", "")
     ELSE /\ reg' = [reg EXCEPT ![p].pc = "count"]
          /\ UNCHANGED ses
  /\ UNCHANGED <<cl, rl, released, again, call, backend, wsThrows, overlap, unreg, activeTunnels, store, userSet,
                 rq, pending>>

\* third await: the user's tunnel count against tunnel_limit
RegCount(p, ok) ==
  /\ reg[p].pc = "count"
  /\ IF ~ok THEN RegisterFails(p, "Registration failed", "store")
     ELSE IF ActiveTunnelCount(UserByKey(reg[p].key)) >= TunnelLimitOf(UserByKey(reg[p].key))
       THEN RegisterFails(p, "Tunnel limit reached", "")
     ELSE /\ reg' = [reg EXCEPT ![p].pc = "insert"]
          /\ UNCHANGED ses
  /\ UNCHANGED <<cl, rl, released, again, call, backend, wsThrows, overlap, unreg, activeTunnels, store, userSet,
                 rq, pending>>

\* the store executes the insert (sql: subdomain is UNIQUE) or the create
\* (redis: hmset overwrites); a rejection is caught as 'Registration failed'
InsertRejected(s) == backend = "sql" /\ store[s].st # "absent"

RegInsert(p, ok) ==
  /\ reg[p].pc = "insert"
  /\ IF ~ok \/ InsertRejected(reg[p].sub)
       THEN /\ RegisterFails(p, "Registration failed",
                               IF ok THEN "unique" ELSE "store")
            /\ UNCHANGED <<store, userSet>>
       ELSE /\ store' = [store EXCEPT ![reg[p].sub] =
                           [st |-> "active", user |-> UserByKey(reg[p].key)]]
            /\ userSet' = IF backend = "redis" /\ UserByKey(reg[p].key) # NoUser
                            THEN userSet \cup {reg[p].sub} ELSE userSet
            /\ reg' = [reg EXCEPT ![p].pc = "created"]
            /\ UNCHANGED ses
  /\ UNCHANGED <<cl, rl, released, again, call, backend, wsThrows, overlap, unreg, activeTunnels, rq, pending>>

\* the continuation after the insert: activeTunnels.set, return success, and
\* in the same turn handleRegister sends Registered and sets the subdomain
RegFinish(p) ==
  /\ reg[p].pc = "created"
  /\ activeTunnels' = [activeTunnels EXCEPT ![reg[p].sub] = reg[p].ch]
  /\ reg' = [reg EXCEPT ![p] = Returned(reg[p].sub, "success", "")]
  /\ ses' = [ses EXCEPT ![reg[p].ch] = SendRegistered(ses[reg[p].ch], reg[p].sub)]
  /\ UNCHANGED <<cl, rl, released, again, call, backend, wsThrows, overlap, unreg, store, userSet, rq, pending>>

\* ---------------------------------------------- close and unregister
getTunnel(s) == activeTunnels[s]

\* ws.on('close'): timers are cleared and unregister(subdomain) is started;
\* unregister reads the entry and suspends at the store update
CloseEvent(c) ==
  /\ ses[c].st \in {"open", "closing", "terminated"}
  /\ ses' = [ses EXCEPT ![c] = ClosedSession]
  /\ unreg' = [unreg EXCEPT ![c] =
                 IF ses[c].sub # NoSub /\ getTunnel(ses[c].sub) # NoChan
                   THEN [pc |-> "update", sub |-> ses[c].sub]
                   ELSE NoUnreg]
  /\ UNCHANGED <<cl, rl, released, again, call, backend, wsThrows, reg, overlap, activeTunnels, store, userSet,
                 rq, pending>>

\* unregister: the store marks the record disconnected (sql) or removes it
\* (redis); a rejection leaves unregister without its last statement
UnregUpdate(c, ok) ==
  /\ unreg[c].pc = "update"
  /\ IF ~ok
       THEN /\ unreg' = [unreg EXCEPT ![c].pc = "failed"]
            /\ UNCHANGED <<store, userSet>>
       ELSE /\ unreg' = [unreg EXCEPT ![c].pc = "delete"]
            /\ store' = [store EXCEPT ![unreg[c].sub] =
                           IF backend = "sql" THEN [@ EXCEPT !.st = "inactive"]
                           ELSE NoRow]
            /\ userSet' = IF backend = "redis" /\ store[unreg[c].sub].user # NoUser
                            THEN userSet \ {unreg[c].sub} ELSE userSet
  /\ UNCHANGED <<cl, rl, released, again, call, backend, wsThrows, ses, reg, overlap, activeTunnels, rq, pending>>

\* unregister: activeTunnels.delete(subdomain)
UnregDelete(c) ==
  /\ unreg[c].pc = "delete"
  /\ unreg' = [unreg EXCEPT ![c].pc = "done"]
  /\ activeTunnels' = [activeTunnels EXCEPT ![unreg[c].sub] = NoChan]
  /\ released' = released \cup {unreg[c].sub}
  /\ UNCHANGED <<cl, rl, again, call, backend, wsThrows, ses, reg, overlap, store, userSet, rq, pending>>

\* one run of the inactivity sweep; stale is the set of live records whose
\* last activity is more than an hour old. sql: is_active = false; redis:
\* the record and its set memberships are removed ("swept" then stands for
\* an absent key). The registry in memory is not touched.
Sweep(stale) ==
  /\ stale # { }
  /\ \A s \in stale : store[s].st = "active"
  /\ store' = [s \in Subdomains |->
                 IF s \in stale THEN [store[s] EXCEPT !.st = "swept"] ELSE store[s]]
  /\ userSet' = IF backend = "redis" THEN userSet \ stale ELSE userSet
  /\ UNCHANGED <<cl, rl, released, again, call, backend, wsThrows, ses, reg, overlap,
                 unreg, activeTunnels, rq, pending>>

\* ------------------------------------------------------ edge dispatcher
\* http.ServerResponse.writeHead rejects a status outside 100..999
ValidStatus(code) == code >= 100 /\ code <= 999

\* writeHead + end on the responder of request r; a second writeHead on the
\* same responder is recorded as well
Write(r, kind, code) == [r EXCEPT !.writes = IF Len(@) < 2 THEN Append(@, <<kind, code>>) ELSE @]

\* handleTunnelRequest: lookup, 404 or forwardRequest (listeners installed,
\* the tunnel object captured)
ReqArrive(r, sub) ==
  /\ rq[r].st = "idle"
  /\ \A q \in Reqs : q < r => rq[q].st # "idle"
  /\ rq' = [rq EXCEPT ![r] =
              IF getTunnel(sub) = NoChan
                THEN Write([@ EXCEPT !.st = "rejected"], "notfound", 404)
                ELSE [@ EXCEPT !.st = "reading", !.ws = getTunnel(sub), !.sub = sub]]
  /\ UNCHANGED <<cl, rl, released, again, call, backend, wsThrows, ses, reg, overlap, unreg, activeTunnels, store,
                 userSet, pending>>

\* req.on('error') while the body is being read
ReqError(r) ==
  /\ rq[r].st = "reading"
  /\ rq' = [rq EXCEPT ![r] = Write([@ EXCEPT !.st = "rejected"], "badrequest", 400)]
  /\ UNCHANGED <<cl, rl, released, again, call, backend, wsThrows, ses, reg, overlap, unreg, activeTunnels, store,
                 userSet, pending>>

\* req.on('end'): arm the timer, addPendingRequest, tunnel.ws.send; when the
\* send throws: clearTimeout, delete the entry, 502
SendThrows(c) == wsThrows /\ ses[c].st # "open"

\* an edge that sends the Request without registering it
sendUnregistered(P, id) == P

\* addPendingRequest(requestId, res, timeout, metadata)
addPendingRequest(P, id) == P \cup {id}

\* the catch that answers 502 and leaves the timer armed
catchSendKeepTimer(q) == Write(q, "sendfail", 502)

\* the catch around tunnel.ws.send: clearTimeout(timeout), 502 Bad Gateway
catchSend(q) == Write([q EXCEPT !.timer = FALSE], "sendfail", 502)

ReqEnd(r) ==
  /\ rq[r].st = "reading"
  /\ LET armed == [rq[r] EXCEPT !.st = "dispatched", !.timer = TRUE]
         added == addPendingRequest(pending, r)
     IN IF SendThrows(rq[r].ws)
          THEN /\ rq' = [rq EXCEPT ![r] = catchSend(armed)]
               /\ pending' = added \ {r}
          ELSE /\ rq' = [rq EXCEPT ![r] =
                           [armed EXCEPT !.wire = (ses[rq[r].ws].st = "open")]]
               /\ pending' = added
  /\ UNCHANGED <<cl, rl, released, again, call, backend, wsThrows, ses, reg, overlap, unreg, activeTunnels, store,
                 userSet>>

\* the setTimeout callback of forwardRequest: 504, delete the entry
ReqTimerFire(r) ==
  /\ rq[r].timer
  /\ rq[r].elapsed >= DEFAULT_TIMEOUT
  /\ rq' = [rq EXCEPT ![r] = Write([@ EXCEPT !.timer = FALSE], "timeout", 504)]
  /\ pending' = IF rq[r].writes = << >> THEN pending \ {r} ELSE pending
  /\ UNCHANGED <<cl, rl, released, again, call, backend, wsThrows, ses, reg, overlap, unreg, activeTunnels, store,
                 userSet>>

\* ------------------------------------------------ pending request table
\* request ids a Response can carry: those of the requests and an unknown one
RequestIds == 0..NumReqs
ResponseStatuses == {0, 200, 99}

\* statusCode || 200
StatusOrDefault(statusCode) == IF statusCode = 0 THEN 200 ELSE statusCode

\* resolvePendingRequest without its clearTimeout(pending.timeout)
resolveWithoutClearTimeout(id, statusCode) ==
  IF id \notin pending
    THEN [rq |-> rq, pending |-> pending, ret |-> "false"]
  ELSE LET code == StatusOrDefault(statusCode)
       IN IF ~ValidStatus(code)
            THEN [rq |-> rq, pending |-> pending, ret |-> "throw"]
          ELSE [rq |-> [rq EXCEPT ![id] = Write(@, "tunnel", code)],
                pending |-> pending \ {id}, ret |-> "true"]

\* resolvePendingRequest answering from the responder it once knew instead
\* of returning false for an id that is no longer in the table
resolveWithoutLookup(id, statusCode) ==
  IF id \notin Reqs \/ (id \notin pending /\ rq[id].st # "dispatched")
    THEN [rq |-> rq, pending |-> pending, ret |-> "false"]
  ELSE LET code == StatusOrDefault(statusCode)
       IN IF ~ValidStatus(code)
            THEN [rq |-> [rq EXCEPT ![id].timer = FALSE], pending |-> pending,
                  ret |-> "throw"]
          ELSE [rq |-> [rq EXCEPT ![id] = Write([@ EXCEPT !.timer = FALSE], "tunnel", code)],
                pending |-> pending \ {id}, ret |-> "true"]

\* incrementRequestCount up to its await: the store update is started when
\* the request's subdomain is still in the registry
incrementRequestCount(r) ==
  [r EXCEPT !.incr = IF activeTunnels[r.sub] # NoChan THEN "pending" ELSE ""]

\* resolvePendingRequest(requestId, statusCode, ...): the table and the
\* responders after the call, and what the call returned
resolvePendingRequest(id, statusCode) ==
  IF id \notin pending
    THEN [rq |-> rq, pending |-> pending, ret |-> "false"]
  ELSE LET cleared == [rq EXCEPT ![id].timer = FALSE]
           code == StatusOrDefault(statusCode)
       IN IF ~ValidStatus(code)
            THEN [rq |-> cleared, pending |-> pending, ret |-> "throw"]
          ELSE IF rq[id].writes # << >>
            THEN [rq |-> [cleared EXCEPT ![id] = Write(@, "tunnel", code)],
                  pending |-> pending, ret |-> "throw"]
          ELSE [rq |-> [cleared EXCEPT ![id] =
                          incrementRequestCount(Write(@, "tunnel", code))],
                pending |-> pending \ {id}, ret |-> "true"]

\* timeoutRequest(requestId)
timeoutRequest(id) ==
  IF id \in pending
    THEN [rq |-> [rq EXCEPT ![id] = Write(@, "timeout", 504)],
          pending |-> IF rq[id].writes = << >> THEN pending \ {id} ELSE pending]
    ELSE [rq |-> rq, pending |-> pending]

\* case MESSAGE_TYPES.RESPONSE: handleResponse inside the handler's try/catch
OnResponse(c, len, id, statusCode) ==
  /\ Receiving(c)
  /\ len <= MAX_MESSAGE_SIZE
  /\ LET o == resolvePendingRequest(id, statusCode)
     IN /\ rq' = IF o.ret = "true" THEN [o.rq EXCEPT ![id].by = c] ELSE o.rq
        /\ pending' = o.pending
  /\ UNCHANGED <<cl, rl, released, again, call, backend, wsThrows, ses, reg, overlap, unreg, activeTunnels,
                 store, userSet>>

\* sizes in bytes of the body the local server answers with, and of the
\* JSON around the body in a Response frame (type, requestId, statusCode,
\* headers)
LocalBodySizes ==
  {0, MAX_MESSAGE_SIZE - 64, MAX_MESSAGE_SIZE, RESPONSE_CAP, RESPONSE_CAP + 1}

Envelopes == {64, 512}

\* the Response the forwarder builds for a local response of n body bytes:
\* beyond the cap a 413 with a short text, else the body as a string
responseFrame(n, envelope) ==
  IF n > RESPONSE_CAP
    THEN [statusCode |-> 413, len |-> envelope + 18]
    ELSE [statusCode |-> 200, len |-> envelope + n]

\* the client on channel c answers Request id, which was written to c, and
\* the frame reaches the server's message handler
ForwardedResponse(c, id, n, envelope) ==
  /\ rq[id].wire
  /\ rq[id].ws = c
  /\ LET f == responseFrame(n, envelope)
     IN \/ MsgTooLarge(c, f.len, "response")
        \/ OnResponse(c, f.len, id, f.statusCode)

\* direct calls of the two terminators, as any caller of the manager may
\* make them; the call and its result are recorded
CallResolve(id, statusCode) ==
  /\ LET o == resolvePendingRequest(id, statusCode)
     IN /\ rq' = o.rq
        /\ pending' = o.pending
        /\ call' = [op |-> "resolve", id |-> id, ret |-> o.ret]
  /\ UNCHANGED <<cl, rl, released, again, backend, wsThrows, ses, reg, overlap, unreg,
                 activeTunnels, store, userSet>>

CallTimeout(id) ==
  /\ LET o == timeoutRequest(id)
     IN /\ rq' = o.rq
        /\ pending' = o.pending
        /\ call' = [op |-> "timeout", id |-> id, ret |-> ""]
  /\ UNCHANGED <<cl, rl, released, again, backend, wsThrows, ses, reg, overlap, unreg,
                 activeTunnels, store, userSet>>

\* ---------------------------------------------- persistence and exit
\* the server process has not exited
Running == call.op # "exit"

\* the bytes of a written response have all been handed to the socket
ResponseFlushed(r) ==
  /\ rq[r].writes # << >>
  /\ ~rq[r].flushed
  /\ ~rq[r].cut
  /\ rq' = [rq EXCEPT ![r].flushed = TRUE]
  /\ UNCHANGED <<cl, rl, released, again, call, backend, wsThrows, ses, reg, overlap, unreg, activeTunnels,
                 store, userSet, pending>>

\* the process exits: a response not yet flushed is cut short, a request
\* without a response never gets one
ProcessExit(q) ==
  IF q.writes # << >> /\ ~q.flushed THEN [q EXCEPT !.cut = TRUE, !.timer = FALSE]
  ELSE IF q.st \in {"reading", "dispatched"} /\ q.writes = << >>
    THEN [q EXCEPT !.st = "aborted", !.timer = FALSE]
  ELSE q

\* the store update awaited in incrementRequestCount settles. Nothing
\* catches its rejection: the runtime reports an unhandled rejection, which
\* ends the process (exits) or is only printed, depending on the runtime
IncrementSettles(r, ok, exits) ==
  /\ rq[r].incr = "pending"
  /\ IF ok
       THEN /\ rq' = [rq EXCEPT ![r].incr = "done"]
            /\ UNCHANGED <<call, pending>>
     ELSE IF ~exits
       THEN /\ rq' = [rq EXCEPT ![r].incr = "rejected"]
            /\ UNCHANGED <<call, pending>>
     ELSE /\ rq' = [q \in Reqs |->
                     ProcessExit(IF q = r THEN [rq[q] EXCEPT !.incr = "rejected"]
                                 ELSE rq[q])]
          /\ pending' = { }
          /\ call' = [op |-> "exit", id |-> 1, ret |-> "unhandledRejection"]
  /\ UNCHANGED <<cl, rl, released, again, backend, wsThrows, ses, reg, overlap, unreg, activeTunnels,
                 store, userSet>>

\* ------------------------------------------------------------------ time
Counting(r) == rq[r].st = "dispatched" /\ (rq[r].timer \/ rq[r].writes = << >>)

Deadlines ==
  {DEFAULT_TIMEOUT - rq[r].elapsed : r \in {x \in Reqs : rq[x].timer}}
    \cup {REGISTRATION_TIMEOUT - ses[c].age : c \in {x \in Chans : ses[x].timer}}

\* time advances by one tick, or up to the next armed timer's expiry; a
\* timer that has expired runs before time advances further
Step == CHOOSE d \in Deadlines \cup {TickMs} : \A e \in Deadlines \cup {TickMs} : d <= e

Tick ==
  /\ Step > 0
  /\ rq' = [r \in Reqs |->
              IF Counting(r)
                THEN [rq[r] EXCEPT !.elapsed = Min(@ + Step, DEFAULT_TIMEOUT + TickMs)]
                ELSE rq[r]]
  /\ ses' = [c \in Chans |->
               IF ses[c].timer THEN [ses[c] EXCEPT !.age = @ + Step] ELSE ses[c]]
  /\ UNCHANGED <<cl, rl, released, again, call, backend, wsThrows, reg, overlap, unreg, activeTunnels, store,
                 userSet, pending>>

\* ------------------------------------------------- message rate limit
srvVars == <<backend, wsThrows, ses, reg, overlap, unreg, activeTunnels, store,
             userSet, rq, pending, call, released, again>>

RECURSIVE SumCounts(_)
SumCounts(S) ==
  IF S = { } THEN 0
  ELSE LET x == CHOOSE y \in S : TRUE IN x[2] + SumCounts(S \ {x})

\* messages the server processed during the last RATE_WINDOW ms
ProcessedInWindow == SumCounts(rl.recent)

\* one more message was processed just now
Processed(recent) ==
  IF \E x \in recent : x[1] = 0
    THEN {IF x[1] = 0 THEN <<0, x[2] + 1>> ELSE x : x \in recent}
    ELSE recent \cup {<<0, 1>>}

\* ws.on('message'), rate check: messageCount++ and the test against 100
OneMessage(l) ==
  LET n == l.messageCount + 1
  IN IF n > RATE_LIMIT
       THEN [l EXCEPT !.messageCount = n, !.st = "closing",
                      !.code = POLICY_VIOLATION, !.reason = "Rate limit exceeded"]
       ELSE [l EXCEPT !.messageCount = n, !.recent = Processed(@)]

\* k messages arrive back to back; those behind a breach are not looked at
RECURSIVE Burst(_, _)
Burst(l, k) ==
  IF k = 0 \/ l.st # "open" THEN l ELSE Burst(OneMessage(l), k - 1)

RateMessage ==
  /\ rl.st = "open"
  /\ rl' = Burst(rl, BurstSize)
  /\ UNCHANGED <<srvVars, cl>>

\* the setInterval callback: messageCount = 0
RateIntervalFire ==
  /\ rl.st = "open"
  /\ rl.phase = RATE_WINDOW
  /\ rl' = [rl EXCEPT !.messageCount = 0, !.phase = 0]
  /\ UNCHANGED <<srvVars, cl>>

\* time passes, at most up to the next run of the interval callback
RateTick ==
  /\ rl.st = "open"
  /\ rl.phase < RATE_WINDOW
  /\ LET d == Min(RateTickMs, RATE_WINDOW - rl.phase)
     IN rl' = [rl EXCEPT !.phase = @ + d,
                         !.recent = {<<x[1] + d, x[2]>> :
                                       x \in {y \in rl.recent : y[1] + d < RATE_WINDOW}}]
  /\ UNCHANGED <<srvVars, cl>>

NextRate == RateMessage \/ RateIntervalFire \/ RateTick

SpecRate == Init /\ [][NextRate]_vars

\* ------------------------------------------------------- tunnel client
\* the text of the Error message handleRegister sends for each failure
MsgInvalidSubdomain ==
  <<"I","n","v","a","l","i","d"," ","s","u","b","d","o","m","a","i","n",".",
    " ","M","u","s","t"," ","b","e"," ","3","-","6","3"," ","c","h","a","r",
    "a","c","t","e","r","s",","," ","a","l","p","h","a","n","u","m","e","r",
    "i","c"," ","o","r"," ","h","y","p","h","e","n","s",","," ","a","n","d",
    " ","n","o","t"," ","r","e","s","e","r","v","e","d"," ","o","r"," ","p",
    "r","o","f","a","n","e",".">>
MsgTaken ==
  <<"S","u","b","d","o","m","a","i","n"," ","a","l","r","e","a","d","y"," ",
    "t","a","k","e","n">>
MsgInvalidKey ==
  <<"I","n","v","a","l","i","d"," ","A","P","I"," ","k","e","y">>
MsgLimit ==
  <<"T","u","n","n","e","l"," ","l","i","m","i","t"," ","r","e","a","c","h",
    "e","d">>
MsgFailed ==
  <<"R","e","g","i","s","t","r","a","t","i","o","n"," ","f","a","i","l","e",
    "d">>
\* a text the registration path never sends
MsgOther ==
  <<"S","e","r","v","e","r"," ","r","e","s","t","a","r","t","i","n","g">>

ErrorText(err) ==
  CASE err = "Invalid subdomain" -> MsgInvalidSubdomain
    [] err = "Subdomain already taken" -> MsgTaken
    [] err = "Invalid API key" -> MsgInvalidKey
    [] err = "Tunnel limit reached" -> MsgLimit
    [] err = "Registration failed" -> MsgFailed
    [] OTHER -> MsgOther

\* the failures handleRegister reports to the client
RegistrationErrors ==
  {"Invalid subdomain", "Subdomain already taken", "Invalid API key",
   "Tunnel limit reached", "Registration failed"}

ServerErrors == RegistrationErrors \cup {"Server restarting"}

fatalErrors == {
  <<"s","u","b","d","o","m","a","i","n"," ","a","l","r","e","a","d","y"," ",
    "t","a","k","e","n">>,
  <<"i","n","v","a","l","i","d"," ","s","u","b","d","o","m","a","i","n">>,
  <<"i","n","v","a","l","i","d"," ","a","p","i"," ","k","e","y">>,
  <<"t","u","n","n","e","l"," ","l","i","m","i","t"," ","r","e","a","c","h",
    "e","d">>,
  <<"r","e","g","i","s","t","r","a","t","i","o","n"," ","f","a","i","l","e",
    "d">>,
  <<"r","a","t","e"," ","l","i","m","i","t"," ","e","x","c","e","e","d","e",
    "d">>,
  <<"m","e","s","s","a","g","e"," ","t","o","o"," ","l","a","r","g","e">> }

\* handleError's test without its toLowerCase
isFatalCaseSensitive(text) == \E e \in fatalErrors : Includes(text, e)

\* fatalErrors.some((error) => msg.message.toLowerCase().includes(error))
isFatal(text) == \E e \in fatalErrors : Includes(toLowerCase(text), e)

\* how the server or the network may end a connection
CloseKinds ==
  {[code |-> POLICY_VIOLATION, reason |-> "Rate limit exceeded"],
   [code |-> MESSAGE_TOO_BIG, reason |-> "Message too large"],
   [code |-> 1006, reason |-> ""]}

Exit(c, code, by) ==
  [c EXCEPT !.phase = "exited", !.exitCode = code, !.exitBy = by,
            !.exitTimer = FALSE, !.closeEv = NoClose, !.rejected = FALSE]

\* reconnect() that arms no timer
reconnectWithoutTimer(c) ==
  IF c.isReconnecting THEN c ELSE [c EXCEPT !.reconnectAttempts = @ + 1]

\* the backoff step with the factor inverted
GrowInverted(d) == Min((d * factorDen) \div factorNum, maxDelay * DelayScale)

\* Math.min(reconnectDelay * factor, maxDelay)
Grow(d) == Min((d * factorNum) \div factorDen, maxDelay * DelayScale)

\* reconnect() without the test of isReconnecting
reconnectUnguarded(c) ==
  [c EXCEPT !.isReconnecting = TRUE,
            !.reconnectAttempts = @ + 1,
            !.delays = Append(@, c.reconnectDelay),
            !.timers = @ + 1]

\* reconnect(): one timer at a time; the attempt is counted when scheduled.
\* timers counts the pending setTimeout callbacks.
reconnect(c) ==
  IF c.isReconnecting THEN c
  ELSE [c EXCEPT !.isReconnecting = TRUE,
                 !.reconnectAttempts = @ + 1,
                 !.delays = Append(@, c.reconnectDelay),
                 !.timers = @ + 1]

\* the first connect(), called by the cli
CliConnect ==
  /\ cl.phase = "new"
  /\ cl' = [cl EXCEPT !.phase = "connecting", !.socks = @ + 1]
  /\ UNCHANGED <<srvVars, rl>>

\* startHeartbeat(): lastPongTime = now, a new interval
startHeartbeat(c) ==
  [c EXCEPT !.hbOn = TRUE, !.sincePong = 0, !.sinceBeat = 0, !.pinged = FALSE,
            !.hbKilled = FALSE]

\* stopHeartbeat(): clearInterval
stopHeartbeat(c) == [c EXCEPT !.hbOn = FALSE, !.sinceBeat = 0, !.pinged = FALSE]

\* ws.on('open'): isConnected = true; register(); startHeartbeat()
SockOpen ==
  /\ cl.phase = "connecting"
  /\ cl' = startHeartbeat([cl EXCEPT !.phase = "open", !.isConnected = TRUE])
  /\ UNCHANGED <<srvVars, rl>>

\* the connection is not established (ws 'error', or the 10 s connection
\* timeout): the promise is rejected and the socket's close event follows
SockFail ==
  /\ cl.phase = "connecting"
  /\ cl' = [cl EXCEPT !.phase = "down", !.rejected = TRUE,
                      !.socks = @ - 1, !.failedAt = cl.reconnectAttempts,
                      !.closeEv = [code |-> 1006, reason |-> ""],
                      !.ended = IF cl.viaReconnect THEN @ + 1 ELSE @]
  /\ UNCHANGED <<srvVars, rl>>

\* handleRegistered without the reset of the backoff
handleRegisteredNoReset(c) == c

\* handleRegistered: the counter and the delay are reset after a reconnect
handleRegistered(c) ==
  IF c.reconnectAttempts > 0
    THEN [c EXCEPT !.reconnectAttempts = 0,
                   !.reconnectDelay = initialDelay * DelayScale]
    ELSE c

\* Registered arrives: publicUrl = msg.url, the url of subdomain sub
RecvRegistered(sub) ==
  /\ cl.phase = "open"
  /\ cl' = [handleRegistered(cl) EXCEPT !.phase = "registered", !.delays = << >>,
                                        !.publicUrl = sub,
                                        !.started = 0, !.ended = 0]
  /\ UNCHANGED <<srvVars, rl>>

\* handleError(msg)
handleError(c, text) ==
  IF isFatal(text)
    THEN [c EXCEPT !.hasFatalError = TRUE, !.shouldReconnect = FALSE,
                   !.exitTimer = TRUE]
    ELSE c

\* an Error message arrives; the server closes the channel behind it, and a
\* fatal one makes the client close it as well
RecvError(err) ==
  /\ cl.phase \in {"open", "registered"}
  /\ LET c == handleError(cl, ErrorText(err))
     IN cl' = [c EXCEPT !.lastErr = err,
                        !.phase = "down", !.socks = @ - 1,
                        !.closeEv = [code |-> POLICY_VIOLATION, reason |-> err],
                        !.ended = IF cl.phase = "open" /\ cl.viaReconnect
                                    THEN @ + 1 ELSE @]
  /\ UNCHANGED <<srvVars, rl>>

\* the server or the network ends the connection without an Error message
ServerClose(ev) ==
  /\ cl.phase \in {"open", "registered"}
  /\ cl' = [cl EXCEPT !.phase = "down", !.closeEv = ev, !.socks = @ - 1,
                      !.ended = IF cl.phase = "open" /\ cl.viaReconnect
                                  THEN @ + 1 ELSE @]
  /\ UNCHANGED <<srvVars, rl>>

\* ws.on('close')
OnClose ==
  /\ cl.phase = "down"
  /\ cl.closeEv # NoClose
  /\ LET c == stopHeartbeat([cl EXCEPT !.isConnected = FALSE,
                                        !.closedBy = cl.closeEv,
                                        !.closeEv = NoClose])
     IN cl' = IF c.hasFatalError THEN Exit(c, 1, "fatal")
              ELSE IF cl.closeEv.code = 1000 /\ ~c.shouldReconnect
                THEN Exit(c, 0, "closed")
              ELSE IF c.shouldReconnect
                THEN [reconnect(c) EXCEPT !.owed = cl.isConnected]
              ELSE Exit(c, 0, "closed")
  /\ UNCHANGED <<srvVars, rl>>

\* the catch of the rejected connect(): the cli's for the first connect,
\* reconnect's for the others
OnCatch ==
  /\ cl.phase = "down"
  /\ cl.rejected
  /\ LET c == [cl EXCEPT !.rejected = FALSE]
     IN cl' = IF ~c.viaReconnect THEN Exit(c, 1, "initial")
              ELSE IF c.reconnectAttempts >= maxReconnectAttempts
                THEN Exit(c, 1, "attempts")
              ELSE reconnect([c EXCEPT !.reconnectDelay = Grow(@)])
  /\ UNCHANGED <<srvVars, rl>>

\* the reconnect timer runs out: isReconnecting = false; connect()
ReconnectTimerFire ==
  /\ cl.phase # "exited"
  /\ cl.timers > 0
  /\ cl.closeEv = NoClose
  /\ ~cl.rejected
  /\ cl.started < MaxStarted
  /\ cl' = [cl EXCEPT !.isReconnecting = FALSE, !.phase = "connecting",
                      !.timers = @ - 1, !.socks = @ + 1, !.failedAt = -1,
                      !.viaReconnect = TRUE, !.owed = FALSE,
                      !.started = @ + 1]
  /\ UNCHANGED <<srvVars, rl>>

\* the timer handleError arms: process.exit(1)
ExitTimerFire ==
  /\ cl.phase # "exited"
  /\ cl.exitTimer
  /\ cl' = Exit(cl, 1, "fatal")
  /\ UNCHANGED <<srvVars, rl>>

\* close(), called on SIGINT / SIGTERM
UserClose ==
  /\ cl.phase \notin {"new", "exited"}
  /\ cl' = Exit([cl EXCEPT !.shouldReconnect = FALSE], 0, "user")
  /\ UNCHANGED <<srvVars, rl>>

\* ------------------------------------------------- client heartbeat
\* time passes on an open connection, up to the next run of the interval
BeatStep ==
  /\ cl.hbOn
  /\ cl.phase \in {"open", "registered"}
  /\ cl.sincePong < MaxSincePong
  /\ LET d == Min(BeatMs, HEARTBEAT_INTERVAL - cl.sinceBeat)
     IN /\ d > 0
        /\ cl' = [cl EXCEPT !.sinceBeat = @ + d, !.sincePong = @ + d]
  /\ UNCHANGED <<srvVars, rl>>

\* the interval callback that gives up one interval early
heartbeatCheckEarly(c) ==
  IF c.phase \notin {"open", "registered"} THEN stopHeartbeat(c)
  ELSE IF c.sincePong > PONG_TIMEOUT - HEARTBEAT_INTERVAL
    THEN [c EXCEPT !.phase = "down", !.hbKilled = TRUE, !.socks = @ - 1,
                   !.closeEv = [code |-> 1006, reason |-> ""]]
  ELSE [c EXCEPT !.pinged = TRUE]

\* the interval callback: stop when the socket is not OPEN; terminate() when
\* now - lastPongTime > 90000 (the close event follows, code 1006); else ping
heartbeatCheck(c) ==
  IF c.phase \notin {"open", "registered"} THEN stopHeartbeat(c)
  ELSE IF c.sincePong > PONG_TIMEOUT
    THEN [c EXCEPT !.phase = "down", !.hbKilled = TRUE, !.socks = @ - 1,
                   !.closeEv = [code |-> 1006, reason |-> ""]]
  ELSE [c EXCEPT !.pinged = TRUE]

\* the heartbeat interval runs out
BeatTick ==
  /\ cl.hbOn
  /\ cl.sinceBeat = HEARTBEAT_INTERVAL
  /\ cl' = heartbeatCheck([cl EXCEPT !.sinceBeat = 0])
  /\ UNCHANGED <<srvVars, rl>>

\* pongHandler: the server's pong to a ping arrives, lastPongTime = now
PongArrives ==
  /\ cl.hbOn
  /\ cl.phase \in {"open", "registered"}
  /\ cl.pinged
  /\ cl' = [cl EXCEPT !.sincePong = 0, !.pinged = FALSE]
  /\ UNCHANGED <<srvVars, rl>>

\* the client and its heartbeat against a server that answers pings or not
NextBeat ==
  \/ CliConnect
  \/ SockOpen
  \/ RecvRegistered(SubGenerated)
  \/ BeatStep
  \/ BeatTick
  \/ PongArrives
  \/ OnClose
  \/ ReconnectTimerFire

SpecBeat == Init /\ [][NextBeat]_vars

NextClient ==
  \/ CliConnect
  \/ SockOpen
  \/ SockFail
  \/ RecvRegistered(SubGenerated)
  \/ \E err \in ServerErrors : RecvError(err)
  \/ \E ev \in CloseKinds : ServerClose(ev)
  \/ OnClose
  \/ OnCatch
  \/ ReconnectTimerFire
  \/ ExitTimerFire
  \/ UserClose

SpecClient == Init /\ [][NextClient]_vars

\* the event loop runs every handler whose event is queued and every timer
\* that has run out
SpecClientLive ==
  /\ SpecClient
  /\ WF_vars(OnClose)
  /\ WF_vars(OnCatch)
  /\ WF_vars(ReconnectTimerFire)
  /\ WF_vars(ExitTimerFire)

\* ------------------------------------------- functions on drawn inputs
\* an argument drawn for function fn, before the call
Arg(fn, x) == [op |-> "arg", id |-> x, ret |-> fn]

\* labels handed to isValidSubdomain: every string of up to MaxLabel
\* characters over LabelAlphabet, the reserved words in both cases, and
\* labels at and beyond the length limit
LabelAlphabet == {"a", "w", "W", "1", "-", "_"}

LongLabel(n) == [i \in 1..n |-> IF i % 5 = 0 THEN "-" ELSE "a"]

Labels ==
  UNION {[1..n -> LabelAlphabet] : n \in 0..MaxLabel}
    \cup RESERVED_SUBDOMAINS
    \cup {<<"a","-","b","-","c">>, <<"a","1","b","2","c","3">>,
          <<"-","a","b","c">>, <<"a","b","c","-">>, <<"A","d","m","i","n">>,
          LongLabel(62), LongLabel(63), LongLabel(64)}

\* how the local HTTP call of forwardToLocal can fail: the code of the error
\* event, or the timeout event of the request
TransportFailures ==
  {"ECONNREFUSED", "ETIMEDOUT", "ENOTFOUND", "ECONNRESET", "EPIPE", "timeout"}

\* the error handler of forwardToLocal with no branch for ETIMEDOUT
errorStatusNoTimedOut(code) ==
  IF code = "ECONNREFUSED" THEN 503
  ELSE IF code = "ENOTFOUND" THEN 502
  ELSE 502

\* req.on('error'): the statusCode of the synthesized response
errorStatus(code) ==
  IF code = "ECONNREFUSED" THEN 503
  ELSE IF code = "ETIMEDOUT" THEN 504
  ELSE IF code = "ENOTFOUND" THEN 502
  ELSE 502

\* the statusCodes forwardToLocal hands to its callback, in order, when the
\* local call fails. On timeout: req.destroy() and 504; the destroyed
\* request then emits 'error' (socket hang up, ECONNRESET) when hangup.
forwardToLocal(failure, hangup) ==
  IF failure = "timeout"
    THEN IF hangup THEN <<504, errorStatus("ECONNRESET")>> ELSE <<504>>
    ELSE <<errorStatus(failure)>>

\* how the local HTTP call can go: it fails, or a response starts and ends,
\* breaks off, or grows beyond the 100 MiB cap
LocalOutcomes == TransportFailures \cup {"end", "resError", "overflow"}

\* the handlers of the response (res.on 'end', 'error', 'data'): the
\* statusCodes handed to the callback, in order. Beyond the cap:
\* req.destroy() and 413; the destroyed response then emits 'error'
\* (aborted) when hangup.
responseHandlers(outcome, hangup) ==
  IF outcome = "end" THEN <<200>>
  ELSE IF outcome = "resError" THEN <<502>>
  ELSE IF hangup THEN <<413, 502>> ELSE <<413>>

\* request bodies: byte strings of up to MaxBody bytes
ByteSamples == {0, 77, 255}
Bodies == UNION {[1..n -> ByteSamples] : n \in 0..MaxBody}

\* base64 text as the sequence of its symbols: 0..63 index the alphabet,
\* Pad is '='
Pad == 64

\* Buffer.toString('base64')
RECURSIVE toBase64(_)
toBase64(B) ==
  IF Len(B) = 0 THEN << >>
  ELSE IF Len(B) = 1
    THEN <<B[1] \div 4, (B[1] % 4) * 16, Pad, Pad>>
  ELSE IF Len(B) = 2
    THEN <<B[1] \div 4, (B[1] % 4) * 16 + B[2] \div 16, (B[2] % 16) * 4, Pad>>
  ELSE <<B[1] \div 4, (B[1] % 4) * 16 + B[2] \div 16,
         (B[2] % 16) * 4 + B[3] \div 64, B[3] % 64>>
         \o toBase64(SubSeq(B, 4, Len(B)))

\* Buffer.from(text, 'base64'): decoding stops at the padding
RECURSIVE fromBase64(_)
fromBase64(T) ==
  IF Len(T) < 2 \/ T[1] = Pad \/ T[2] = Pad THEN << >>
  ELSE IF Len(T) = 2 \/ T[3] = Pad
    THEN <<T[1] * 4 + T[2] \div 16>>
  ELSE IF Len(T) = 3 \/ T[4] = Pad
    THEN <<T[1] * 4 + T[2] \div 16, (T[2] % 16) * 16 + T[3] \div 4>>
  ELSE <<T[1] * 4 + T[2] \div 16, (T[2] % 16) * 16 + T[3] \div 4,
         (T[3] % 4) * 64 + T[4]>>
         \o fromBase64(SubSeq(T, 5, Len(T)))

\* forwardRequest, req.on('end'): the body field of the Request message
\* (<< >>: the field is omitted)
requestBodyField(B) == IF Len(B) > 0 THEN <<toBase64(B)>> ELSE << >>

\* the forwarder that writes the body field as it arrived and leaves the
\* headers alone
forwardBodyRaw(field, contentLength) ==
  IF field # << >>
    THEN [written |-> field[1], contentLength |-> contentLength]
    ELSE [written |-> << >>, contentLength |-> contentLength]

\* forwardToLocal, body decoding: what is written to the local server and
\* the content-length header sent (<< >>: no such header); contentLength is
\* the header of the message
forwardBody(field, contentLength) ==
  IF field # << >>
    THEN LET requestBody == fromBase64(field[1])
         IN [written |-> requestBody, contentLength |-> <<Len(requestBody)>>]
    ELSE [written |-> << >>, contentLength |-> << >>]

\* String.prototype.split(sep) for a one-character separator
RECURSIVE Split(_, _)
Split(s, sep) ==
  IF \A i \in 1..Len(s) : s[i] # sep THEN <<s>>
  ELSE LET i == CHOOSE k \in 1..Len(s) :
                  s[k] = sep /\ \A j \in 1..(k - 1) : s[j] # sep
       IN <<SubSeq(s, 1, i - 1)>> \o Split(SubSeq(s, i + 1, Len(s)), sep)

localhost == <<"l","o","c","a","l","h","o","s","t">>
loopback == <<"1","2","7",".","0",".","0",".","1">>

\* Host headers: every string of up to MaxHost characters over HostAlphabet
\* (the empty one stands for a missing header as well), and the development
\* hosts with and without a port
HostAlphabet == {"a", "8", ".", ":"}

Hostnames ==
  UNION {[1..n -> HostAlphabet] : n \in 0..MaxHost}
    \cup {localhost, localhost \o <<":","8">>, loopback, loopback \o <<":","8">>,
          <<"a",".">> \o localhost, <<"a",".","a",".","a",":","8">>}

\* config.baseDomain: unset, one label, two labels, two labels and a port
BaseDomains ==
  {<< >>, <<"a">>, <<"a",".","a">>, <<"a",".","a",":","8">>}

\* extractSubdomain that splits the labels of hostname, port included
extractSubdomainWithPort(hostname, baseDomain) ==
  IF hostname = << >> THEN << >>
  ELSE LET host == hostname
       IN IF host \in {localhost, loopback} THEN << >>
          ELSE LET parts == IF host # << >> THEN Split(host, ".") ELSE << >>
                   baseParts == IF baseDomain # << >>
                                  THEN Split(Split(baseDomain, ":")[1], ".")
                                  ELSE << >>
               IN IF Len(parts) > Len(baseParts) /\ parts[1] # << >>
                    THEN <<parts[1]>>
                    ELSE << >>

\* extractSubdomain(hostname, baseDomain): << >> is null, <<l>> the label l
extractSubdomain(hostname, baseDomain) ==
  IF hostname = << >> THEN << >>
  ELSE LET host == Split(hostname, ":")[1]
       IN IF host \in {localhost, loopback} THEN << >>
          ELSE LET parts == IF host # << >> THEN Split(host, ".") ELSE << >>
                   baseParts == IF baseDomain # << >>
                                  THEN Split(Split(baseDomain, ":")[1], ".")
                                  ELSE << >>
               IN IF Len(parts) > Len(baseParts) /\ parts[1] # << >>
                    THEN <<parts[1]>>
                    ELSE << >>

\* call is an argument drawn for one of the functions
CallInputs ==
  \/ call \in {Arg("extractSubdomain", <<h, b>>) : h \in Hostnames, b \in BaseDomains}
  \/ call \in {Arg("isValidSubdomain", s) : s \in Labels}
  \/ call \in {Arg("forwardToLocal", f) : f \in TransportFailures}
  \/ call \in {Arg("handleRequest", o) : o \in LocalOutcomes}
  \/ call \in {Arg("forwardRequest", B) : B \in Bodies}

InitCalls ==
  /\ backend \in {"sql", "redis"}
  /\ wsThrows \in BOOLEAN
  /\ ses = [c \in Chans |-> NewSession]
  /\ reg = [p \in Regs |-> FreeReg]
  /\ overlap = {}
  /\ unreg = [c \in Chans |-> NoUnreg]
  /\ activeTunnels = [s \in Subdomains |-> NoChan]
  /\ store = [s \in Subdomains |-> NoRow]
  /\ userSet = {}
  /\ rq = [r \in Reqs |-> NewRequest]
  /\ pending = {}
  /\ CallInputs
  /\ released = {}
  /\ again = {}
  /\ rl = NewLimiter
  /\ cl = NewClient

\* handleRegister's call of isValidSubdomain(subdomain)
Validate ==
  /\ call.op = "arg"
  /\ call.ret = "isValidSubdomain"
  /\ call' = [op |-> "isValidSubdomain", id |-> call.id,
              ret |-> IF isValidSubdomain(call.id) THEN "true" ELSE "false"]
  /\ UNCHANGED <<cl, rl, released, again, backend, wsThrows, ses, reg, overlap, unreg,
                 activeTunnels, store, userSet, rq, pending>>

\* the local call of a Request fails; handleRequest's callback sends one
\* Response per invocation
ForwardFails(hangup) ==
  /\ call.op = "arg"
  /\ call.ret = "forwardToLocal"
  /\ call' = [op |-> "forwardToLocal", id |-> call.id,
              ret |-> forwardToLocal(call.id, hangup)]
  /\ UNCHANGED <<cl, rl, released, again, backend, wsThrows, ses, reg, overlap, unreg,
                 activeTunnels, store, userSet, rq, pending>>

\* a public request with body call.id travels from the edge to the local
\* server; the caller's content-length header is hdr
ForwardBody(hdr) ==
  /\ call.op = "arg"
  /\ call.ret = "forwardRequest"
  /\ LET field == requestBodyField(call.id)
         out == forwardBody(field, hdr)
     IN call' = [op |-> "forwardRequest", id |-> call.id,
                 ret |-> [body |-> field, written |-> out.written,
                          contentLength |-> out.contentLength]]
  /\ UNCHANGED <<cl, rl, released, again, backend, wsThrows, ses, reg, overlap, unreg,
                 activeTunnels, store, userSet, rq, pending>>

\* the request handler's call of extractSubdomain(host, config.baseDomain)
Extract ==
  /\ call.op = "arg"
  /\ call.ret = "extractSubdomain"
  /\ call' = [op |-> "extractSubdomain", id |-> call.id,
              ret |-> extractSubdomain(call.id[1], call.id[2])]
  /\ UNCHANGED <<cl, rl, released, again, backend, wsThrows, ses, reg, overlap, unreg,
                 activeTunnels, store, userSet, rq, pending>>

\* handleRequest(msg) while the channel stays open: the statusCodes of the
\* Response messages its callback sends for msg.requestId, in order
HandleRequest(hangup) ==
  /\ call.op = "arg"
  /\ call.ret = "handleRequest"
  /\ call' = [op |-> "handleRequest", id |-> call.id,
              ret |-> IF call.id \in TransportFailures
                        THEN forwardToLocal(call.id, hangup)
                        ELSE responseHandlers(call.id, hangup)]
  /\ UNCHANGED <<cl, rl, released, again, backend, wsThrows, ses, reg, overlap, unreg,
                 activeTunnels, store, userSet, rq, pending>>

NextCalls ==
  \/ Extract
  \/ \E hangup \in BOOLEAN : HandleRequest(hangup)
  \/ Validate
  \/ \E hangup \in BOOLEAN : ForwardFails(hangup)
  \/ \E hdr \in {<< >>, <<Len(call.id)>>} : ForwardBody(hdr)

SpecCalls == InitCalls /\ [][NextCalls]_vars

\* ------------------------------------------------------------ the system
\* the control sessions and the registry: connections, Register messages
\* without an api key, close and unregister, the registration timer
NextRegistry ==
  \/ \E c \in Chans : Connect(c)
  \/ \E c \in Chans : RegTimerFire(c)
  \/ \E c \in Chans, len \in MessageSizes, type \in MessageTypes :
       MsgTooLarge(c, len, type)
  \/ \E c \in Chans, len \in MessageSizes, sub \in RequestedSubs :
        OnRegister(c, len, sub, NoKey)
  \/ \E p \in Regs, ok \in BOOLEAN : RegLookup(p, ok)
  \/ \E p \in Regs, ok \in BOOLEAN : RegInsert(p, ok)
  \/ \E p \in Regs : RegFinish(p)
  \/ \E c \in Chans : CloseEvent(c)
  \/ \E c \in Chans, ok \in BOOLEAN : UnregUpdate(c, ok)
  \/ \E c \in Chans : UnregDelete(c)
  \/ Tick

SpecRegistry == Init /\ [][NextRegistry]_vars

\* the edge: public requests against tunnels that are already registered
SubOrder == <<SubDev, SubGenerated>>
Registered(c) == c <= Len(SubOrder)

InitEdge ==
  /\ backend \in {"sql", "redis"}
  /\ wsThrows \in BOOLEAN
  /\ ses = [c \in Chans |->
              IF Registered(c)
                THEN [NewSession EXCEPT !.st = "open", !.seen = TRUE, !.arrived = TRUE,
                                        !.sub = SubOrder[c], !.regd = {SubOrder[c]}]
                ELSE [NewSession EXCEPT !.st = "open", !.timer = TRUE]]
  /\ reg = [p \in Regs |->
              IF p \in Chans /\ Registered(p)
                THEN Returned(SubOrder[p], "success", "") ELSE FreeReg]
  /\ overlap = {}
  /\ unreg = [c \in Chans |-> NoUnreg]
  /\ activeTunnels = [s \in Subdomains |->
                        IF \E c \in Chans : Registered(c) /\ SubOrder[c] = s
                          THEN CHOOSE c \in Chans : Registered(c) /\ SubOrder[c] = s
                          ELSE NoChan]
  /\ store = [s \in Subdomains |->
                IF \E c \in Chans : Registered(c) /\ SubOrder[c] = s
                  THEN [st |-> "active", user |-> NoUser] ELSE NoRow]
  /\ userSet = {}
  /\ rq = [r \in Reqs |-> NewRequest]
  /\ pending = {}
  /\ call = NoCall
  /\ released = {}
  /\ again = {}
  /\ rl = NewLimiter
  /\ cl = NewClient

NextEdge ==
  \/ \E c \in Chans, len \in MessageSizes, type \in MessageTypes :
       MsgTooLarge(c, len, type)
  \/ \E c \in Chans : CloseEvent(c)
  \/ \E c \in Chans, ok \in BOOLEAN : UnregUpdate(c, ok)
  \/ \E c \in Chans : UnregDelete(c)
  \/ \E r \in Reqs, sub \in Subdomains : ReqArrive(r, sub)
  \/ \E r \in Reqs : ReqError(r)
  \/ \E r \in Reqs : ReqEnd(r)
  \/ \E r \in Reqs : ReqTimerFire(r)
  \/ \E c \in Chans, len \in MessageSizes, id \in RequestIds, sc \in ResponseStatuses :
        OnResponse(c, len, id, sc)
  \/ Tick

SpecEdge == InitEdge /\ [][NextEdge]_vars

\* the edge with the Response frames the forwarder builds
NextFrames ==
  \/ \E c \in Chans : CloseEvent(c)
  \/ \E c \in Chans, ok \in BOOLEAN : UnregUpdate(c, ok)
  \/ \E c \in Chans : UnregDelete(c)
  \/ \E r \in Reqs, sub \in Subdomains : ReqArrive(r, sub)
  \/ \E r \in Reqs : ReqEnd(r)
  \/ \E r \in Reqs : ReqTimerFire(r)
  \/ \E c \in Chans, id \in Reqs, n \in LocalBodySizes, e \in Envelopes :
        ForwardedResponse(c, id, n, e)
  \/ Tick

SpecFrames == InitEdge /\ [][NextFrames]_vars

\* the edge together with direct calls of the pending-table terminators
NextApi ==
  \/ NextEdge
  \/ \E id \in RequestIds, sc \in ResponseStatuses : CallResolve(id, sc)
  \/ \E id \in RequestIds : CallTimeout(id)

SpecApi == InitEdge /\ [][NextApi]_vars

\* one registered tunnel and one connection that has not registered: public
\* requests, and frames of every kind on both channels
InitGate ==
  /\ backend \in {"sql", "redis"}
  /\ wsThrows \in BOOLEAN
  /\ ses = [c \in Chans |->
              IF c = 1
                THEN [NewSession EXCEPT !.st = "open", !.seen = TRUE, !.arrived = TRUE,
                                        !.sub = SubDev, !.regd = {SubDev}]
                ELSE [NewSession EXCEPT !.st = "open", !.timer = TRUE]]
  /\ reg = [p \in Regs |-> IF p = 1 THEN Returned(SubDev, "success", "") ELSE FreeReg]
  /\ overlap = {}
  /\ unreg = [c \in Chans |-> NoUnreg]
  /\ activeTunnels = [s \in Subdomains |-> IF s = SubDev THEN 1 ELSE NoChan]
  /\ store = [s \in Subdomains |->
                IF s = SubDev THEN [st |-> "active", user |-> NoUser] ELSE NoRow]
  /\ userSet = {}
  /\ rq = [r \in Reqs |-> NewRequest]
  /\ pending = {}
  /\ call = NoCall
  /\ released = {}
  /\ again = {}
  /\ rl = NewLimiter
  /\ cl = NewClient

NextGate ==
  \/ \E c \in Chans : RegTimerFire(c)
  \/ \E c \in Chans, len \in MessageSizes, type \in MessageTypes \cup OtherTypes :
       MsgTooLarge(c, len, type)
  \/ \E c \in Chans, len \in MessageSizes, type \in OtherTypes : OnOther(c, len, type)
  \/ \E c \in Chans, len \in MessageSizes, id \in RequestIds, sc \in ResponseStatuses :
        OnResponse(c, len, id, sc)
  \/ \E c \in Chans : CloseEvent(c)
  \/ \E c \in Chans, ok \in BOOLEAN : UnregUpdate(c, ok)
  \/ \E c \in Chans : UnregDelete(c)
  \/ \E r \in Reqs, sub \in Subdomains : ReqArrive(r, sub)
  \/ \E r \in Reqs : ReqEnd(r)
  \/ \E r \in Reqs : ReqTimerFire(r)
  \/ Tick

SpecGate == InitGate /\ [][NextGate]_vars

\* a client registered as 'dev' on channel 1 loses the channel through its
\* heartbeat and comes back on channel 2
InitRejoin ==
  \E own \in {SubDev, NoSub} :
    LET held == IF own = NoSub THEN SubGenerated ELSE own
    IN /\ backend \in {"sql", "redis"}
       /\ wsThrows \in BOOLEAN
       /\ ses = [c \in Chans |->
                   IF c = 1
                     THEN [NewSession EXCEPT !.st = "open", !.seen = TRUE,
                                             !.arrived = TRUE,
                                             !.sub = held, !.regd = {held}]
                     ELSE NewSession]
       /\ reg = [p \in Regs |->
                   IF p = 1 THEN Returned(held, "success", "") ELSE FreeReg]
       /\ overlap = {}
       /\ unreg = [c \in Chans |-> NoUnreg]
       /\ activeTunnels = [s \in Subdomains |-> IF s = held THEN 1 ELSE NoChan]
       /\ store = [s \in Subdomains |->
                     IF s = held THEN [st |-> "active", user |-> NoUser] ELSE NoRow]
       /\ userSet = {}
       /\ rq = [r \in Reqs |-> NewRequest]
       /\ pending = {}
       /\ call = NoCall
       /\ released = {}
       /\ again = {}
       /\ rl = NewLimiter
       /\ cl = [NewClient EXCEPT !.phase = "registered", !.isConnected = TRUE,
                                 !.socks = 1, !.subdomain = own,
                                 !.publicUrl = held]

\* the client has given up channel 1
Left == cl.closeEv # NoClose \/ cl.closedBy # NoClose

\* the heartbeat loop finds no pong for more than 90 s: ws.terminate()
HeartbeatDead ==
  /\ cl.phase = "registered"
  /\ ~Left
  /\ ServerClose([code |-> 1006, reason |-> ""])

\* the server learns that a channel is gone (its ticker, or the transport)
RejoinClose(c) ==
  /\ IF c = 1 THEN Left ELSE cl.phase \in {"down", "exited"}
  /\ CloseEvent(c)

\* the client's new connection is accepted
RejoinAccept ==
  /\ cl.phase = "connecting"
  /\ Connect(2)

RejoinOpen ==
  /\ ses[2].st = "open"
  /\ SockOpen

\* register(): the Register message with this.subdomain || undefined arrives
RejoinRegister ==
  /\ cl.phase = "open"
  /\ ~ses[2].arrived
  /\ \E len \in MessageSizes : OnRegister(2, len, cl.subdomain, NoKey)

\* the server's answer to that Register arrives at the client
RejoinRegistered ==
  \E sub \in ses[2].regd : RecvRegistered(sub)

RejoinError ==
  /\ ses[2].errs > 0
  /\ reg[2].pc = "done"
  /\ reg[2].res # "success"
  /\ RecvError(reg[2].res)

\* this.ws: channel 1 until the reconnect timer has run connect(), which
\* assigns a new socket, channel 2
ClientChan == IF cl.viaReconnect THEN 2 ELSE 1

ClientOpen == cl.phase \in {"open", "registered"}

\* a public request for the client's tunnel is dispatched
RejoinDispatch(r) ==
  \/ ReqArrive(r, reg[1].sub)
  \/ ReqEnd(r)

\* handleRequest(msg): the Request arrives on this.ws, which is OPEN, and
\* forwardToLocal starts the local call
RequestArrives(r) ==
  /\ rq[r].wire
  /\ rq[r].ws = ClientChan
  /\ ClientOpen
  /\ cl.arrivedOn = NoChan
  /\ cl' = [cl EXCEPT !.handling = TRUE, !.arrivedOn = ClientChan]
  /\ UNCHANGED <<srvVars, rl>>

\* the callback handleRequest gave to forwardToLocal: the Response is sent
\* on this.ws when that is OPEN, and dropped otherwise
LocalCallDone ==
  /\ cl.handling
  /\ cl.phase # "exited"
  /\ cl' = [cl EXCEPT !.handling = FALSE,
                      !.sentOn = IF ClientOpen THEN ClientChan ELSE NoChan]
  /\ UNCHANGED <<srvVars, rl>>

\* the Response of the client reaches the server's message handler
RejoinResponse(r) ==
  /\ cl.sentOn # NoChan
  /\ \E len \in MessageSizes : OnResponse(cl.sentOn, len, r, 200)

NextRejoin ==
  \/ \E r \in Reqs : RejoinDispatch(r)
  \/ \E r \in Reqs : RequestArrives(r)
  \/ LocalCallDone
  \/ \E r \in Reqs : RejoinResponse(r)
  \/ HeartbeatDead
  \/ \E c \in Chans : RejoinClose(c)
  \/ \E c \in Chans : UnregUpdate(c, TRUE)
  \/ \E c \in Chans : UnregDelete(c)
  \/ OnClose
  \/ ReconnectTimerFire
  \/ RejoinAccept
  \/ RejoinOpen
  \/ RejoinRegister
  \/ \E p \in Regs : RegLookup(p, TRUE)
  \/ \E p \in Regs : RegInsert(p, TRUE)
  \/ \E p \in Regs : RegFinish(p)
  \/ RejoinRegistered
  \/ RejoinError
  \/ ExitTimerFire

SpecRejoin == InitRejoin /\ [][NextRejoin]_vars

\* both event loops run every handler whose event has arrived; the server
\* is reachable and its store answers
SpecRejoinLive ==
  /\ SpecRejoin
  /\ WF_vars(\E c \in Chans : RejoinClose(c))
  /\ WF_vars(\E c \in Chans : UnregUpdate(c, TRUE))
  /\ WF_vars(\E c \in Chans : UnregDelete(c))
  /\ WF_vars(OnClose)
  /\ WF_vars(ReconnectTimerFire)
  /\ WF_vars(RejoinAccept)
  /\ WF_vars(RejoinOpen)
  /\ WF_vars(RejoinRegister)
  /\ WF_vars(\E p \in Regs : RegLookup(p, TRUE))
  /\ WF_vars(\E p \in Regs : RegInsert(p, TRUE))
  /\ WF_vars(\E p \in Regs : RegFinish(p))
  /\ WF_vars(RejoinRegistered)
  /\ WF_vars(RejoinError)
  /\ WF_vars(ExitTimerFire)

\* connections under the liveness ticker
NextHeartbeat ==
  \/ \E c \in Chans : Connect(c)
  \/ HeartbeatTick
  \/ \E c \in Chans : Pong(c)
  \/ \E c \in Chans : PeerPing(c)
  \/ \E c \in Chans, len \in MessageSizes, type \in MessageTypes :
       MsgTooLarge(c, len, type)
  \/ \E c \in Chans : CloseEvent(c)

SpecHeartbeat == Init /\ [][NextHeartbeat]_vars

\* the edge with the counter updates of answered requests
NextPersist ==
  \/ Running /\ NextEdge
  \/ Running /\ \E r \in Reqs : ResponseFlushed(r)
  \/ Running /\ \E r \in Reqs, ok \in BOOLEAN, exits \in BOOLEAN :
                   IncrementSettles(r, ok, exits)

SpecPersist == InitEdge /\ [][NextPersist]_vars

\* registrations with an api key, close and unregister, and the sweep
NextQuota ==
  \/ \E c \in Chans : Connect(c)
  \/ \E c \in Chans, len \in MessageSizes, sub \in {SubDev, NoSub},
        key \in ApiKeys \ {NoKey} : OnRegister(c, len, sub, key)
  \/ \E p \in Regs, ok \in BOOLEAN : RegLookup(p, ok)
  \/ \E p \in Regs, ok \in BOOLEAN : RegUser(p, ok)
  \/ \E p \in Regs, ok \in BOOLEAN : RegCount(p, ok)
  \/ \E p \in Regs, ok \in BOOLEAN : RegInsert(p, ok)
  \/ \E p \in Regs : RegFinish(p)
  \/ \E c \in Chans : CloseEvent(c)
  \/ \E c \in Chans, ok \in BOOLEAN : UnregUpdate(c, ok)
  \/ \E c \in Chans : UnregDelete(c)
  \/ \E stale \in SUBSET Subdomains : Sweep(stale)

SpecQuota == Init /\ [][NextQuota]_vars

\* the whole server
Next ==
  \/ NextRegistry
  \/ NextEdge
  \/ \E c \in Chans, len \in MessageSizes, sub \in RequestedSubs, key \in ApiKeys :
        OnRegister(c, len, sub, key)
  \/ \E p \in Regs, ok \in BOOLEAN : RegUser(p, ok)
  \/ \E p \in Regs, ok \in BOOLEAN : RegCount(p, ok)
  \/ \E stale \in SUBSET Subdomains : Sweep(stale)
  \/ \E c \in Chans, len \in MessageSizes, type \in OtherTypes : OnOther(c, len, type)
  \/ HeartbeatTick
  \/ \E c \in Chans : Pong(c)
  \/ \E c \in Chans : PeerPing(c)

Spec == Init /\ [][Next]_vars

TypeOK ==
  /\ backend \in {"sql", "redis"}
  /\ wsThrows \in BOOLEAN
  /\ \A c \in Chans : ses[c].st \in {"none", "open", "closing", "terminated", "closed"}
  /\ \A p \in Regs : reg[p].pc \in {"free", "lookup", "user", "count", "insert",
                                     "created", "done"}
  /\ pending \subseteq Reqs
  /\ \A s \in Subdomains : activeTunnels[s] \in Chans \cup {NoChan}

\* ================================================================ claims

\* C1: a public request accepted by forwardRequest never has a second HTTP
\* response written to its responder, and once its pending entry is gone
\* exactly one response was written, which is the tunnel's, the 504 of the
\* timer or the 502 of the failed send.
C1_ExactlyOneResponse ==
  \A r \in Reqs :
    /\ Len(rq[r].writes) <= 1
    /\ (rq[r].st = "dispatched" /\ r \notin pending)
         => /\ Len(rq[r].writes) = 1
            /\ rq[r].writes[1][1] \in {"tunnel", "timeout", "sendfail"}

\* a request answered by its tunnel after the channel saw its Response
C1_Witness ==
  \E r \in Reqs :
    /\ rq[r].st = "dispatched"
    /\ r \notin pending
    /\ rq[r].by # NoChan
    /\ rq[r].writes = << <<"tunnel", 200>> >>

\* C2: every request that got a pending entry has an HTTP response written
\* once more than DEFAULT_TIMEOUT has passed since it was added, whatever the
\* tunnel sent.
C2_AnsweredWithinTimeout ==
  \A r \in Reqs :
    (rq[r].st = "dispatched" /\ rq[r].elapsed > DEFAULT_TIMEOUT)
      => rq[r].writes # << >>

\* C5: every entry of the pending table has its timeout timer armed, so no
\* entry stays in the table beyond DEFAULT_TIMEOUT.
C5_PendingEntryHasTimer ==
  \A r \in pending : rq[r].timer /\ rq[r].elapsed <= DEFAULT_TIMEOUT

\* C6: a call of resolvePendingRequest or timeoutRequest with an id that is
\* not in the pending table writes to no responder and leaves the table as
\* it is, and resolvePendingRequest returns false.
AbsentIdCall ==
  /\ call' # call
  /\ call'.id \notin pending

C6_AbsentIdIsNoOp ==
  [][AbsentIdCall =>
       /\ rq' = rq
       /\ pending' = pending
       /\ (call'.op = "resolve" => call'.ret = "false")]_vars

\* a late resolve of a request the timer has already answered returned false
C6_Witness ==
  /\ call.op = "resolve"
  /\ call.ret = "false"
  /\ call.id \in Reqs
  /\ call.id \notin pending
  /\ rq[call.id].writes = << <<"timeout", 504>> >>

\* C7: a request is resolved only by a Response that arrived on the control
\* channel the request was dispatched to.
C7_ResolvedByOwnSession ==
  \A r \in Reqs : rq[r].by # NoChan => rq[r].by = rq[r].ws

\* C3: of two register calls for the same subdomain whose executions
\* overlapped, and neither of which lost its store connection, exactly one
\* succeeded and the other returned 'Subdomain already taken'.
Settled(p) == reg[p].pc = "done" /\ reg[p].threw # "store"

C3_OneWinnerOthersTaken ==
  \A p, q \in Regs :
    (/\ p # q
     /\ {p, q} \in overlap
     /\ Settled(p) /\ Settled(q)
     /\ reg[p].sub = reg[q].sub)
      => \/ reg[p].res = "success" /\ reg[q].res = "Subdomain already taken"
         \/ reg[q].res = "success" /\ reg[p].res = "Subdomain already taken"

\* C4: once a control channel is closed and the work its close started
\* (a register call in flight, the unregister call) has ended, the registry
\* holds no entry bound to that channel.
Quiet(c) ==
  /\ ses[c].st = "closed"
  /\ \A p \in Regs : InFlight(p) => reg[p].ch # c
  /\ unreg[c].pc \notin {"update", "delete"}

C4_ClosedChannelHasNoEntry ==
  \A c \in Chans : Quiet(c) => \A s \in Subdomains : activeTunnels[s] # c

\* C8 as stated: a channel on which a Register failed got exactly one Error,
\* was closed with code 1008 and never got a Registered.
C8_FailureMeansErrorAnd1008 ==
  \A c \in Chans :
    ses[c].failed
      => ses[c].errs = 1 /\ ses[c].code = POLICY_VIOLATION /\ ses[c].regd = { }

\* C8 amended: when a Register fails while the channel is still open, that
\* step sends one Error, closes the channel with code 1008 and changes no
\* registry entry; from then on the channel gets no further Error and no
\* Registered.
FailsWhileOpen(c) == ~ses[c].failed /\ ses'[c].failed /\ ses[c].st = "open"

C8_FailureWhileOpen ==
  [][\A c \in Chans :
       /\ FailsWhileOpen(c)
            => /\ ses'[c].errs = ses[c].errs + 1
               /\ ses'[c].errs = 1
               /\ ses'[c].st = "closing"
               /\ ses'[c].code = POLICY_VIOLATION
               /\ ses'[c].regd = ses[c].regd
               /\ activeTunnels' = activeTunnels
       /\ (ses[c].failed /\ ses[c].code = POLICY_VIOLATION)
            => /\ ses'[c].errs <= ses[c].errs
               /\ ses'[c].regd \subseteq ses[c].regd]_vars

\* a Register for a subdomain another channel holds was refused on a channel
\* that was open, and the holder is still registered
C8_Witness ==
  \E c \in Chans, p \in Regs :
    /\ ses[c].failed
    /\ ses[c].st = "closing"
    /\ ses[c].errs = 1
    /\ ses[c].code = POLICY_VIOLATION
    /\ reg[p].res = "Subdomain already taken"
    /\ activeTunnels[reg[p].sub] \notin {NoChan, c}

\* C9: while a channel that was sent Registered for a subdomain is open, the
\* registry maps that subdomain to that channel.
C9_RegisteredStaysBound ==
  \A c \in Chans :
    \A s \in ses[c].regd : ses[c].st = "open" => activeTunnels[s] = c

\* C10 as stated: the registration timer never terminates a connection on
\* which a Register message arrived, and a live connection on which none
\* arrived is never older than REGISTRATION_TIMEOUT.
C10_ArrivedRegisterStopsTimer ==
  \A c \in Chans :
    /\ (Receiving(c) /\ ~ses[c].arrived) => ses[c].age <= REGISTRATION_TIMEOUT
    /\ ses[c].killed => ~ses[c].arrived

\* C10 amended: a live connection on which no Register has reached the
\* handler has its registration timer armed and is never older than
\* REGISTRATION_TIMEOUT; the timer terminates only connections on which no
\* Register reached the handler, and is disarmed once one has.
C10_RegistrationTimer ==
  \A c \in Chans :
    /\ (Receiving(c) /\ ~ses[c].seen)
         => ses[c].timer /\ ses[c].age <= REGISTRATION_TIMEOUT
    /\ ses[c].killed => ~ses[c].seen
    /\ ses[c].seen => ~ses[c].timer

\* one connection was terminated by its timer while another, whose Register
\* was handled, is still open
C10_Witness ==
  \E c, d \in Chans :
    /\ ses[c].killed /\ ses[c].st = "terminated"
    /\ ses[d].seen /\ ses[d].st = "open" /\ ~ses[d].killed

\* C11: in any window of RATE_WINDOW ms the server processes at most
\* RATE_LIMIT messages of one connection.
C11_AtMostLimitPerWindow == ProcessedInWindow <= RATE_LIMIT

\* handleError's classification of the texts the registration path sends
AllRegistrationErrorsFatal == \A e \in RegistrationErrors : isFatal(ErrorText(e))

\* C12: every Error text of the registration path is classified as fatal,
\* and once the client has received one it has no reconnect scheduled, opens
\* no further connection, has the exit timer armed until it exits, and exits
\* with code 1 unless the user stops it first.
C12_FatalErrorStopsClient ==
  /\ AllRegistrationErrorsFatal
  /\ cl.lastErr \in RegistrationErrors
       => /\ ~cl.isReconnecting
          /\ cl.phase \in {"down", "exited"}
          /\ cl.phase # "exited" => cl.exitTimer
          /\ cl.phase = "exited" => (cl.exitCode = 1 \/ cl.exitBy = "user")

\* the client exited with code 1 after 'Subdomain already taken' reached it
\* on a connection opened by a reconnect
C12_Witness ==
  /\ cl.lastErr = "Subdomain already taken"
  /\ cl.hasFatalError
  /\ cl.viaReconnect
  /\ cl.phase = "exited"
  /\ cl.exitCode = 1

C14_RateLimitCloseIsFatal ==
  cl.closedBy = [code |-> POLICY_VIOLATION, reason |-> "Rate limit exceeded"]
    => /\ ~cl.isReconnecting
       /\ cl.phase \in {"down", "exited"}
       /\ cl.phase = "exited" => (cl.exitCode = 1 \/ cl.exitBy = "user")

\* C15: the delays of the reconnect attempts scheduled since the last
\* Registered start at initialDelay, never decrease and never exceed
\* maxDelay.
C15_BackoffMonotone ==
  /\ \A i \in 1..Len(cl.delays) :
       /\ cl.delays[i] <= maxDelay * DelayScale
       /\ \A j \in i..Len(cl.delays) : cl.delays[i] <= cl.delays[j]
  /\ Len(cl.delays) > 0 => cl.delays[1] = initialDelay * DelayScale

\* three attempts were scheduled in a row and the delay has grown
C15_Witness ==
  /\ Len(cl.delays) >= 3
  /\ cl.delays[1] = initialDelay * DelayScale
  /\ cl.delays[3] > cl.delays[1]

\* C16: when the client has handled Registered its attempt counter is 0 and
\* its reconnect delay is initialDelay.
C16_RegisteredResetsBackoff ==
  cl.phase = "registered"
    => /\ cl.reconnectAttempts = 0
       /\ cl.reconnectDelay = initialDelay * DelayScale

\* Registered was handled on a connection opened by a reconnect
C16_Witness ==
  /\ cl.phase = "registered"
  /\ cl.viaReconnect
  /\ cl.closedBy # NoClose

\* C17: the client aborts for lack of a connection only when
\* maxReconnectAttempts reconnect attempts in a row have ended without
\* Registered, and never starts one more attempt than that.
C17_AbortExactlyAtLimit ==
  /\ cl.exitBy = "attempts" => cl.ended = maxReconnectAttempts
  /\ cl.started <= maxReconnectAttempts

\* the tunnels of user u that are live: in the registry, on an open channel
LiveTunnelsOf(u) ==
  {s \in Subdomains :
     /\ activeTunnels[s] # NoChan
     /\ ses[activeTunnels[s]].st = "open"
     /\ store[s].st \in {"active", "swept"}
     /\ store[s].user = u}

\* C18: the number of live tunnels registered with a user's api key never
\* exceeds the user's tunnel_limit.
C18_LiveTunnelsWithinLimit ==
  \A key \in ApiKeys :
    UserByKey(key) # NoUser
      => Cardinality(LiveTunnelsOf(UserByKey(key))) <= TunnelLimitOf(UserByKey(key))

\* C19: a tunnel the inactivity sweep has marked is no longer in the
\* registry, so lookup of its subdomain returns none.
C19_SweptTunnelIsGone ==
  \A s \in Subdomains : store[s].st = "swept" => getTunnel(s) = NoChan

\* C20: a register call made for a subdomain whose unregister has completed
\* and which nothing holds or is taking succeeds, unless the store connection
\* fails or a later call for the same subdomain overlaps it.
C20_ReleasedSubdomainRegistersAgain ==
  \A p \in again :
    (/\ reg[p].pc = "done"
     /\ reg[p].threw # "store"
     /\ \A q \in Regs : {p, q} \in overlap => reg[q].sub # reg[p].sub)
      => reg[p].res = "success"

\* the label the claim describes: 3 to 63 characters, each a letter, a digit
\* or a hyphen, neither the first nor the last a hyphen, and not a reserved
\* word in any case
LabelChars ==
  {LowerChars[i] : i \in 1..26} \cup {UpperChars[i] : i \in 1..26}
    \cup DigitChars \cup {"-"}

SpecifiedValid(s) ==
  /\ Len(s) >= 3
  /\ Len(s) <= 63
  /\ \A i \in 1..Len(s) : s[i] \in LabelChars
  /\ s[1] # "-"
  /\ s[Len(s)] # "-"
  /\ \A w \in RESERVED_SUBDOMAINS :
       ~(Len(w) = Len(s) /\ \A i \in 1..Len(s) :
           s[i] = w[i] \/ \E k \in 1..26 : UpperChars[k] = s[i] /\ LowerChars[k] = w[i])

\* the labels the claim lists as accepted and as rejected
ExamplesAsListed ==
  /\ \A s \in {<<"a","b","c">>, <<"a","-","b","-","c">>, <<"a","1","b","2","c","3">>,
               LongLabel(63)} : isValidSubdomain(s)
  /\ \A s \in {<<"a","b">>, <<"-","a","b","c">>, <<"a","b","c","-">>, <<"W","W","W">>,
               LongLabel(64), <<"a","_","b">>} : ~isValidSubdomain(s)

\* C22: isValidSubdomain(s) returns true exactly for the labels of 3 to 63
\* characters that match the format and are not reserved in any case, and it
\* accepts and rejects the listed examples.
C22_ValidSubdomainIff ==
  /\ ExamplesAsListed
  /\ call.op = "isValidSubdomain"
       => (call.ret = "true" <=> SpecifiedValid(call.id))

\* the call for a well-formed label of 63 characters returned true
C22_Witness ==
  /\ call.op = "isValidSubdomain"
  /\ call.id = LongLabel(63)
  /\ call.ret = "true"

\* the status the claim assigns to each local transport failure
MappedStatus(failure) ==
  CASE failure = "ECONNREFUSED" -> 503
    [] failure \in {"ETIMEDOUT", "timeout"} -> 504
    [] OTHER -> 502

\* C23: for each local transport failure the first Response the client sends
\* carries the mapped status: ECONNREFUSED 503, ETIMEDOUT or the request
\* timeout 504, ENOTFOUND and any other error 502.
C23_FirstResponseHasMappedStatus ==
  call.op = "forwardToLocal"
    => /\ Len(call.ret) >= 1
       /\ call.ret[1] = MappedStatus(call.id)

\* the request timed out and the destroyed request reported a second failure
C23_Witness ==
  /\ call.op = "forwardToLocal"
  /\ call.id = "timeout"
  /\ call.ret = <<504, 502>>

C28_OneSubdomainPerSession ==
  \A c \in Chans : Cardinality({s \in Subdomains : activeTunnels[s] = c}) <= 1

\* C29: while a channel is being closed by the server, no message received
\* on it starts a registration or resolves a pending request.
C29_ClosingChannelIsDeaf ==
  [][\A c \in Chans :
       ses[c].st = "closing"
         => /\ \A p \in Regs : reg[p].pc = "free" => reg'[p].ch # c
            /\ \A r \in Reqs : rq[r].by # c => rq'[r].by # c]_vars

\* the step left channel c open or closing as it was, and the registry, the
\* pending table and the session's subdomain as they were
Untouched(c) ==
  /\ ses'[c].st = ses[c].st
  /\ ses'[c].sub = ses[c].sub
  /\ activeTunnels' = activeTunnels
  /\ pending' = pending
  /\ rq' = rq

\* C24 as stated: whenever a frame that is not valid JSON or has no handled
\* type is received, the channel is not closed and the registry, the pending
\* table and the subdomain binding stay as they are.
C24_OtherFrameChangesNothing ==
  [][\A c \in Chans :
       (/\ ses'[c].st # "closed"
        /\ \/ ses'[c].ignored # ses[c].ignored
           \/ ses'[c].droppedOther # ses[c].droppedOther)
         => Untouched(c)]_vars

\* C24: whenever a frame that passed the size check and is not valid JSON or
\* has no handled type is received, the channel is not closed and the
\* registry, the pending table and the subdomain binding stay as they are.
C24_IgnoredFrameChangesNothing ==
  [][\A c \in Chans :
       (ses'[c].st # "closed" /\ ses'[c].ignored # ses[c].ignored)
         => Untouched(c)]_vars

\* the registered channel ignored a frame while a request was pending on it,
\* and is still open and registered
C24_Witness ==
  /\ ses[1].ignored
  /\ ses[1].st = "open"
  /\ activeTunnels[SubDev] = 1
  /\ pending # { }

\* C27: a pending request is resolved only by a Response from a channel that
\* has registered a tunnel.
C27_OnlyActiveSessionsResolve ==
  [][\A r \in Reqs :
       (rq[r].by = NoChan /\ rq'[r].by # NoChan) => ses[rq'[r].by].sub # NoSub]_vars

\* a step in which the liveness ticker ran
TickerRan == \E c \in Chans : ses'[c].quiet = ses[c].quiet + 1

\* C30: a run of the ticker terminates every OPEN channel whose isAlive is
\* false and sets isAlive to false and pings every other OPEN channel; an
\* OPEN channel has never seen two runs since its peer's last pong; and the
\* ticker terminates only a channel that left a ping unanswered until the
\* next run.
C30_TickerTerminatesSilentPeers ==
  /\ [][TickerRan =>
          \A c \in Chans :
            ses[c].st = "open"
              => IF ses[c].isAlive
                   THEN /\ ses'[c].st = "open"
                        /\ ~ses'[c].isAlive
                        /\ ses'[c].pinged
                   ELSE ses'[c].st = "terminated"]_vars
  /\ [](\A c \in Chans : ses[c].st = "open" => ses[c].quiet <= 1)
  /\ [](\A c \in Chans : ses[c].hb => ses[c].late)

\* the ticker terminated one channel while another, which had answered its
\* ping, stayed open
C30_Witness ==
  \E c, d \in Chans :
    /\ ses[c].hb
    /\ ses[c].st = "terminated"
    /\ ses[d].st = "open"
    /\ ses[d].pinged
    /\ ~ses[d].late

\* C21: a client that lost its channel through heartbeat death is
\* eventually registered again, given a reachable server that removes the
\* old entry.
C21_RegisteredAgainAfterHeartbeatDeath ==
  (cl.phase = "down" /\ cl.closeEv.code = 1006) ~> (cl.phase = "registered")

\* C26: no response to a public caller is cut short or prevented by a
\* failure of the store while counters are updated.
C26_PersistenceFailureHarmless ==
  \A r \in Reqs : ~rq[r].cut /\ rq[r].st # "aborted"

\* the host without its port, its number of dot-separated labels and its
\* first label, counted on the characters
StripPort(s) ==
  LET I == {i \in 1..Len(s) : s[i] = ":"}
  IN IF I = { } THEN s
     ELSE SubSeq(s, 1, (CHOOSE i \in I : \A j \in I : i <= j) - 1)

NumLabels(s) ==
  IF s = << >> THEN 0 ELSE Cardinality({i \in 1..Len(s) : s[i] = "."}) + 1

FirstLabel(s) ==
  LET I == {i \in 1..Len(s) : s[i] = "."}
  IN IF I = { } THEN s
     ELSE SubSeq(s, 1, (CHOOSE i \in I : \A j \in I : i <= j) - 1)

MoreLabels(host, baseDomain) ==
  /\ StripPort(host) \notin {localhost, loopback}
  /\ NumLabels(StripPort(host)) > NumLabels(StripPort(baseDomain))

C36_OneResponsePerRequest ==
  call.op = "handleRequest" => Len(call.ret) = 1

\* C37: a Response the forwarder builds for a local response whose body is
\* within the 100 MiB cap never makes the server close an open channel with
\* code 1009.
C37_ResponseWithinCapPasses ==
  [][\A c \in Chans, id \in Reqs, n \in LocalBodySizes, e \in Envelopes :
       (n <= RESPONSE_CAP /\ ForwardedResponse(c, id, n, e))
         => ~(ses[c].st = "open" /\ ses'[c].code = MESSAGE_TOO_BIG)]_vars

\* C32: a request whose Request message could not be written was answered
\* 502, has no timer armed and no pending entry, and never gets the 504 of
\* the timer.
C32_FailedSendIsAnswered502 ==
  \A r \in Reqs :
    (\E i \in 1..Len(rq[r].writes) : rq[r].writes[i][1] = "sendfail")
      => /\ rq[r].writes = << <<"sendfail", 502>> >>
         /\ ~rq[r].timer
         /\ r \notin pending
         /\ ~rq[r].wire

\* the send to a channel that is no longer open threw
C32_Witness ==
  \E r \in Reqs :
    /\ rq[r].st = "dispatched"
    /\ rq[r].writes = << <<"sendfail", 502>> >>
    /\ ses[rq[r].ws].st # "open"
    /\ wsThrows

\* C38: when the Request message of a request is written to the channel its
\* pending entry and its armed timer exist already, and while the request
\* has no response the entry stays, so a Response finds the id absent only
\* when the request was answered already.
C38_RegisteredBeforeSend ==
  /\ [][\A r \in Reqs :
          (~rq[r].wire /\ rq'[r].wire) => (r \in pending' /\ rq'[r].timer)]_vars
  /\ [](\A r \in Reqs : (rq[r].wire /\ rq[r].writes = << >>) => r \in pending)

\* the Response of the tunnel resolved a request that was on the wire
C38_Witness ==
  \E r \in Reqs :
    /\ rq[r].wire
    /\ rq[r].by = rq[r].ws
    /\ rq[r].writes = << <<"tunnel", 200>> >>
    /\ r \notin pending

\* C33: each reconnect attempt scheduled after an unsuccessful one, with no
\* Registered in between, waits min(1.5 x the delay of the previous attempt,
\* maxDelay).
C33_EachAttemptWaitsLonger ==
  \A i \in 2..Len(cl.delays) : cl.delays[i] = Grow(cl.delays[i - 1])

\* C39: the client never has more than one reconnect timer pending nor more
\* than one control connection connecting or open, and when the close
\* handler and the catch of a failed attempt have both run exactly one timer
\* is pending and the attempt counter is one higher than when the attempt
\* failed.
C39_OneTimerOneConnection ==
  /\ cl.timers <= 1
  /\ cl.socks <= 1
  /\ (/\ cl.phase = "down"
      /\ cl.failedAt >= 0
      /\ cl.closeEv = NoClose
      /\ ~cl.rejected)
       => /\ cl.timers = 1
          /\ cl.reconnectAttempts = cl.failedAt + 1

\* a reconnect attempt failed before its connection opened, both the close
\* handler and the catch have run, and the next attempt is scheduled
C39_Witness ==
  /\ cl.phase = "down"
  /\ cl.viaReconnect
  /\ cl.failedAt >= 1
  /\ cl.closeEv = NoClose
  /\ ~cl.rejected
  /\ cl.timers = 1
  /\ cl.reconnectDelay > initialDelay * DelayScale

\* C40: when the client is Registered again after a reconnect, its public
\* URL is that of the subdomain it held before the disconnect.
C40_SameSubdomainAfterReconnect ==
  (cl.phase = "registered" /\ cl.viaReconnect) => cl.publicUrl = reg[1].sub

\* C35: the Response of a Request is sent, if at all, on the control channel
\* on which the Request arrived.
C35_ResponseOnArrivalChannel ==
  cl.sentOn # NoChan => cl.sentOn = cl.arrivedOn

====
